---- MODULE Spec2Model ----
(***************************************************************************)
(* A model of the ToBeGreen / Thwomp serialization codec (src/SD.py, with  *)
(* the variants of src/SerDes.py and src/ToBeGreen/SD.py where they        *)
(* differ), and of the type specifications of src/V.py.                    *)
(*                                                                         *)
(* Representation.                                                         *)
(*   blob        a sequence of bytes 0..255                                *)
(*   str         a sequence of Unicode code points                         *)
(*   object      <<kind, content>>, kind being type(x).__name__ :          *)
(*                 <<"bytes", blob>>        <<"str", code points>>         *)
(*                 <<"int", i>>             <<"bool", b>>                  *)
(*                 <<"list", seq of objects>>   <<"tuple", seq>>           *)
(*                 <<"set", seq>>  <<"frozenset", seq>>  the members in    *)
(*                     the iteration order of that object, no two equal    *)
(*                 <<"dict", seq of <<key, value>> >>  in insertion order  *)
(*                 <<"NoneType", <<>> >>  None, a kind without a registry  *)
(*                     entry                                               *)
(*   module      "SD" (src/SD.py), "SerDes" (src/SerDes.py, and            *)
(*               src/Thwomp.py, which renames it), "ToBeGreen"             *)
(*               (src/ToBeGreen/SD.py)                                     *)
(*   outcome     Ret(v) for `return v`, Raise(e, info) for an exception of *)
(*               class e whose message carries info: <<>> for nothing,     *)
(*               <<"type", kind>>, <<"object", x>> or <<"blob", bytes>>    *)
(***************************************************************************)
EXTENDS Integers, Sequences, FiniteSets, TLC

VARIABLES
    serers,   \* the registry Ser reads: type name -> <<tag name, serializer>>
    desers,   \* the registry Des reads: tag name -> deserializer
    mod,      \* the module whose function was called last
    op,       \* the function called last
    arg,      \* its argument
    ret,      \* its outcome
    origin,   \* how the argument was made: <<"Ser", x, tail>>, <<"raw">>, ...
    vq,       \* the frame of a VLQToInt call run one loop iteration at a time
    it,       \* the frame of a verify or _list_des call run one iteration at a time
    threads,  \* per thread: the Ser or Des call it runs, and how far it is
    blobs     \* per frame of _list_ser: its local `blob`

vars == <<serers, desers, mod, op, arg, ret, origin, vq, it, threads, blobs>>

-----------------------------------------------------------------------------
(* Outcomes of a call *)

Ret(v) == <<"return", v>>

Raise(e, info) == <<"raise", e, info>>

IsRet(r) == r[1] = "return"

IsRaise(r) == r[1] = "raise"

Val(r) == r[2]

Exc(r) == r[2]

Info(r) == r[3]

\* Go on with the value of r, unless r is an exception, which propagates.
Bind(r, F(_)) == IF IsRaise(r) THEN r ELSE F(Val(r))

\* The text of a name, as code points (ASCII letters only are needed).
Letters == <<"a","b","c","d","e","f","g","h","i","j","k","l","m",
             "n","o","p","q","r","s","t","u","v","w","x","y","z">>

CodePoint(ch) == 96 + CHOOSE i \in 1..26 : Letters[i] = ch

Text(chars) == [i \in 1..Len(chars) |-> CodePoint(chars[i])]

-----------------------------------------------------------------------------
(* Python slices *)

\* blob[n:]
Drop(s, n) == IF n >= Len(s) THEN <<>> ELSE [i \in 1..(Len(s) - n) |-> s[i + n]]

\* blob[:n]
Take(s, n) == IF n >= Len(s) THEN s ELSE [i \in 1..n |-> s[i]]

-----------------------------------------------------------------------------
(* Backend interface: UTF-8 *)

IsSurrogate(c) == c >= 55296 /\ c <= 57343

\* The UTF-8 bytes of one code point.
EncodeCodePoint(c) ==
    IF c < 128 THEN <<c>>
    ELSE IF c < 2048 THEN <<192 + (c \div 64), 128 + (c % 64)>>
    ELSE IF c < 65536
         THEN <<224 + (c \div 4096), 128 + ((c \div 64) % 64), 128 + (c % 64)>>
    ELSE <<240 + (c \div 262144), 128 + ((c \div 4096) % 64),
           128 + ((c \div 64) % 64), 128 + (c % 64)>>

RECURSIVE EncodeUTF8(_)
EncodeUTF8(s) ==
    IF s = <<>> THEN <<>> ELSE EncodeCodePoint(Head(s)) \o EncodeUTF8(Tail(s))

\* bytes(str(s), "utf-8"): a lone surrogate cannot be encoded.
strToBytes(s) ==
    IF \E i \in 1..Len(s) : IsSurrogate(s[i])
    THEN Raise("UnicodeEncodeError", <<>>)
    ELSE Ret(EncodeUTF8(s))

IsCont(b) == b >= 128 /\ b <= 191

\* The length of the well-formed UTF-8 sequence at the head of b, 0 if none.
UTF8Width(b) ==
    LET n  == Len(b)
        b1 == b[1]
        c2 == n >= 2 /\ IsCont(b[2])
        c3 == n >= 3 /\ IsCont(b[3])
        c4 == n >= 4 /\ IsCont(b[4])
    IN  IF b1 < 128 THEN 1
        ELSE IF b1 >= 194 /\ b1 <= 223 THEN (IF c2 THEN 2 ELSE 0)
        ELSE IF b1 = 224 THEN (IF c2 /\ b[2] >= 160 /\ c3 THEN 3 ELSE 0)
        ELSE IF b1 = 237 THEN (IF c2 /\ b[2] <= 159 /\ c3 THEN 3 ELSE 0)
        ELSE IF b1 >= 225 /\ b1 <= 239 THEN (IF c2 /\ c3 THEN 3 ELSE 0)
        ELSE IF b1 = 240 THEN (IF c2 /\ b[2] >= 144 /\ c3 /\ c4 THEN 4 ELSE 0)
        ELSE IF b1 >= 241 /\ b1 <= 243 THEN (IF c2 /\ c3 /\ c4 THEN 4 ELSE 0)
        ELSE IF b1 = 244 THEN (IF c2 /\ b[2] <= 143 /\ c3 /\ c4 THEN 4 ELSE 0)
        ELSE 0

DecodeCodePoint(b, w) ==
    IF w = 1 THEN b[1]
    ELSE IF w = 2 THEN (b[1] - 192) * 64 + (b[2] - 128)
    ELSE IF w = 3 THEN (b[1] - 224) * 4096 + (b[2] - 128) * 64 + (b[3] - 128)
    ELSE (b[1] - 240) * 262144 + (b[2] - 128) * 4096
         + (b[3] - 128) * 64 + (b[4] - 128)

RECURSIVE DecodeUTF8(_, _)
DecodeUTF8(b, acc) ==
    IF b = <<>> THEN Ret(acc)
    ELSE LET w == UTF8Width(b)
         IN  IF w = 0 THEN Raise("UnicodeDecodeError", <<>>)
             ELSE DecodeUTF8(Drop(b, w), Append(acc, DecodeCodePoint(b, w)))

\* str(bytes(byteobj), "utf-8")
bytesToStr(byteobj) == DecodeUTF8(byteobj, <<>>)

-----------------------------------------------------------------------------
(* Backend interface: VLQ *)

abs(n) == IF n < 0 THEN -n ELSE n

RECURSIVE intToVLQLoop(_, _)
\* The `while True` loop of intToVLQ: one 7-bit group per iteration, each
\* with the continuation bit set, prepended to the result.
intToVLQLoop(n, result) ==
    LET r == <<(n % 128) + 128>> \o result
        m == n \div 128
    IN  IF ~(0 < m) THEN r ELSE intToVLQLoop(m, r)

\* A variant of intToVLQ that writes an empty group ahead of the others.
intToVLQPadded(n) ==
    LET result == <<128>> \o intToVLQLoop(abs(n), <<>>)
    IN  [result EXCEPT ![Len(result)] = @ % 128]

intToVLQ(n) ==
    LET result == intToVLQLoop(abs(n), <<>>)
    IN  [result EXCEPT ![Len(result)] = @ % 128]

RECURSIVE VLQToIntLenient(_, _)
\* A variant of the loop of VLQToInt that returns what it has at the end of the
\* blob.
VLQToIntLenient(n, blob) ==
    IF blob = <<>> THEN Ret(n)
    ELSE LET x  == Head(blob)
             n2 == n * 128 + (x % 128)
         IN  IF ~(x >= 128) THEN Ret(n2) ELSE VLQToIntLenient(n2, Tail(blob))

RECURSIVE VLQToIntNoMask(_, _)
\* A variant of the loop of VLQToInt that adds the byte with its continuation bit.
VLQToIntNoMask(n, blob) ==
    IF blob = <<>> THEN Raise("IndexError", <<>>)
    ELSE LET x  == Head(blob)
             n2 == n * 128 + x
         IN  IF ~(x >= 128) THEN Ret(n2) ELSE VLQToIntNoMask(n2, Tail(blob))

RECURSIVE VLQToIntLoop(_, _)
\* The `while True` loop of VLQToInt; blob[0] of an empty blob raises.
VLQToIntLoop(n, blob) ==
    IF blob = <<>> THEN Raise("IndexError", <<>>)
    ELSE LET x  == Head(blob)
             n2 == n * 128 + (x % 128)
         IN  IF ~(x >= 128) THEN Ret(n2) ELSE VLQToIntLoop(n2, Tail(blob))

VLQToInt(blob) == VLQToIntLoop(0, blob)

\* A variant of skipVLQ that takes every VLQ to be one byte long.
skipVLQOneByte(blob) ==
    IF blob = <<>> THEN Raise("IndexError", <<>>) ELSE Ret(Tail(blob))

RECURSIVE skipVLQ(_)
skipVLQ(blob) ==
    IF blob = <<>> THEN Raise("IndexError", <<>>)
    ELSE IF Head(blob) >= 128 THEN skipVLQ(Tail(blob))
    ELSE Ret(Tail(blob))

-----------------------------------------------------------------------------
(* Backend interface: framing *)

pascalify(blob) == intToVLQ(Len(blob)) \o blob

\* [VLQToInt(blob), skipVLQ(blob)]: the list is built left to right, so the
\* first exception raised is the one of VLQToInt.
depascalify(blob) ==
    Bind(VLQToInt(blob), LAMBDA n :
    Bind(skipVLQ(blob), LAMBDA rest :
    Ret(<<n, rest>>)))

\* A variant of peel whose first slice ends one byte early.
peelOffByOne(blob) ==
    Bind(depascalify(blob), LAMBDA d :
    Ret(<<Take(d[2], d[1] - 1), Drop(d[2], d[1])>>))

\* [blob[ : blength], blob[blength : ]] of the depascalified blob.  Slices
\* never raise: a declared length beyond the end yields what is there.
peel(blob) ==
    Bind(depascalify(blob), LAMBDA d :
    Ret(<<Take(d[2], d[1]), Drop(d[2], d[1])>>))

-----------------------------------------------------------------------------
(* Python objects *)

Kind(x) == x[1]

Content(x) == x[2]

Obj(kind, content) == <<kind, content>>

PyNone == Obj("NoneType", <<>>)

NumericKinds == {"int", "bool"}

\* int(x) of a number: True is 1 and False is 0.
Number(x) ==
    IF Kind(x) = "int" THEN Content(x) ELSE IF Content(x) THEN 1 ELSE 0

RECURSIVE PyEq(_, _)
\* Python's ==
PyEq(a, b) ==
    LET ka == Kind(a)
        kb == Kind(b)
        ca == Content(a)
        cb == Content(b)
    IN  IF ka \in NumericKinds /\ kb \in NumericKinds THEN Number(a) = Number(b)
        ELSE IF ka \in {"set", "frozenset"} /\ kb \in {"set", "frozenset"}
             THEN /\ \A i \in 1..Len(ca) : \E j \in 1..Len(cb) : PyEq(ca[i], cb[j])
                  /\ \A j \in 1..Len(cb) : \E i \in 1..Len(ca) : PyEq(ca[i], cb[j])
        ELSE IF ka # kb THEN FALSE
        ELSE IF ka \in {"bytes", "str", "NoneType"} THEN ca = cb
        ELSE IF ka \in {"list", "tuple"}
             THEN /\ Len(ca) = Len(cb)
                  /\ \A i \in 1..Len(ca) : PyEq(ca[i], cb[i])
        ELSE IF ka = "dict"
             THEN /\ Len(ca) = Len(cb)
                  /\ \A i \in 1..Len(ca) : \E j \in 1..Len(cb) :
                        PyEq(ca[i][1], cb[j][1]) /\ PyEq(ca[i][2], cb[j][2])
        ELSE FALSE

RECURSIVE Hashable(_)
Hashable(x) ==
    IF Kind(x) \in {"list", "set", "dict"} THEN FALSE
    ELSE IF Kind(x) = "tuple"
         THEN \A i \in 1..Len(Content(x)) : Hashable(Content(x)[i])
    ELSE TRUE

\* x in s, for a sequence s of objects
Member(x, s) == \E i \in 1..Len(s) : PyEq(x, s[i])

RECURSIVE Distinct(_, _)
\* The members of a set built by adding the elements of s in order to acc.
Distinct(s, acc) ==
    IF s = <<>> THEN Ret(acc)
    ELSE IF ~Hashable(Head(s)) THEN Raise("TypeError", <<>>)
    ELSE Distinct(Tail(s), IF Member(Head(s), acc) THEN acc ELSE Append(acc, Head(s)))

\* tuple(x), set(x), frozenset(x) of a list x
ToTuple(x) == Ret(Obj("tuple", x))

ToSet(x) == Bind(Distinct(x, <<>>), LAMBDA d : Ret(Obj("set", d)))

ToFrozenSet(x) == Bind(Distinct(x, <<>>), LAMBDA d : Ret(Obj("frozenset", d)))

\* d[k] = v on the entries of a dict: a present key keeps its place.
SetItem(entries, k, v) ==
    IF \E i \in 1..Len(entries) : PyEq(entries[i][1], k)
    THEN [i \in 1..Len(entries) |->
            IF PyEq(entries[i][1], k) THEN <<entries[i][1], v>> ELSE entries[i]]
    ELSE Append(entries, <<k, v>>)

-----------------------------------------------------------------------------
(* Serializers *)

Modules == {"SD", "SerDes", "ToBeGreen"}

_bytes_ser(x) == Ret(Content(x))

_str_ser(x) == strToBytes(Content(x))

\* A variant of _int_ser that writes a sign byte ahead of the magnitude.
_int_ser_signed(x) ==
    Ret(<<IF Content(x) < 0 THEN 255 ELSE 0>> \o intToVLQ(Content(x)))

\* src/SD.py, src/SerDes.py: the magnitude alone
_int_ser(x) == Ret(intToVLQ(Content(x)))

_bool_ser(x) == Ret(IF Content(x) THEN <<255>> ELSE <<0>>)

\* LEB.fromInt and LEB.toInt of the MiniCLEB package, which src/ToBeGreen/SD.py
\* imports and the repository does not hold: the variable-length encoding of
\* a non-negative integer and its decoding, taken to be the ones above.
LEB_fromInt(n) == intToVLQ(n)

LEB_toInt(blob) == VLQToInt(blob)

\* src/ToBeGreen/SD.py: a sign byte, then the magnitude
ToBeGreen_int_ser(x) ==
    Ret(Val(_bool_ser(Obj("bool", 0 <= Content(x)))) \o LEB_fromInt(abs(Content(x))))

RECURSIVE SerIn(_, _)

RECURSIVE ListSerLoopReversed(_, _, _)
\* A variant of the loop of _list_ser that puts each element before the ones
\* already written.
ListSerLoopReversed(m, blob, ys) ==
    IF ys = <<>> THEN Ret(blob)
    ELSE Bind(SerIn(m, Head(ys)), LAMBDA s :
         ListSerLoopReversed(m, pascalify(s) \o blob, Tail(ys)))

RECURSIVE ListSerLoopUnframed(_, _, _)
\* A variant of the loop of _list_ser that appends Ser(y) without its length.
ListSerLoopUnframed(m, blob, ys) ==
    IF ys = <<>> THEN Ret(blob)
    ELSE Bind(SerIn(m, Head(ys)), LAMBDA s :
         ListSerLoopUnframed(m, blob \o s, Tail(ys)))

RECURSIVE ListSerLoop(_, _, _)
\* The `for y in x` loop of _list_ser, blob being what is built so far.
ListSerLoop(m, blob, ys) ==
    IF ys = <<>> THEN Ret(blob)
    ELSE Bind(SerIn(m, Head(ys)), LAMBDA s :
         ListSerLoop(m, blob \o pascalify(s), Tail(ys)))

_list_ser(m, x) == ListSerLoop(m, <<>>, Content(x))

_tuple_ser(m, x) == _list_ser(m, x)

_set_ser(m, x) == _list_ser(m, x)

_frozenset_ser(m, x) == _list_ser(m, x)

RECURSIVE DictSerLoopAsLists(_, _, _)
\* A variant of _dict_ser that hands each (key, value) pair to Ser as a list.
DictSerLoopAsLists(m, blob, items) ==
    IF items = <<>> THEN Ret(blob)
    ELSE Bind(SerIn(m, Obj("list", Head(items))), LAMBDA s :
         DictSerLoopAsLists(m, blob \o pascalify(s), Tail(items)))

RECURSIVE DictSerLoop(_, _, _)
\* _list_ser over map(_list_ser, x.items()): each (key, value) pair is
\* serialized by _list_ser into a blob, and that blob is what the outer
\* loop hands to Ser.
DictSerLoop(m, blob, items) ==
    IF items = <<>> THEN Ret(blob)
    ELSE Bind(ListSerLoop(m, <<>>, Head(items)), LAMBDA e :
         Bind(SerIn(m, Obj("bytes", e)), LAMBDA s :
         DictSerLoop(m, blob \o pascalify(s), Tail(items))))

_dict_ser(m, x) == DictSerLoop(m, <<>>, Content(x))

\* Call the serializer a registry entry names.
CallSerializer(m, f, x) ==
    CASE f = "_bytes_ser"        -> _bytes_ser(x)
      [] f = "_str_ser"          -> _str_ser(x)
      [] f = "_int_ser"          -> IF m = "ToBeGreen" THEN ToBeGreen_int_ser(x)
                                    ELSE _int_ser(x)
      [] f = "_bool_ser"         -> _bool_ser(x)
      [] f = "_list_ser"         -> _list_ser(m, x)
      [] f = "_tuple_ser"        -> _tuple_ser(m, x)
      [] f = "_set_ser"          -> _set_ser(m, x)
      [] f = "_frozenset_ser"    -> _frozenset_ser(m, x)
      [] f = "_dict_ser"         -> _dict_ser(m, x)

\* The except branch of Ser.  src/SD.py builds the message from `name`,
\* which the failed lookup never bound; src/SerDes.py from the type's name;
\* src/ToBeGreen/SD.py from str(x).
SerFailed(m, x) ==
    IF m = "SD" THEN Raise("UnboundLocalError", <<>>)
    ELSE IF m = "SerDes" THEN Raise("Exception", <<"type", Kind(x)>>)
    ELSE Raise("Exception", <<"object", x>>)

\* A variant of Ser that emits the payload frame alone.
SerNoTag(m, x) ==
    IF Kind(x) \notin DOMAIN serers THEN SerFailed(m, x)
    ELSE Bind(CallSerializer(m, serers[Kind(x)][2], x), LAMBDA payload :
         Ret(pascalify(payload)))

\* [name, serializer] = serers[type(x)], then
\* pascalify(strToBytes(name)) + pascalify(serializer(x))
SerIn(m, x) ==
    IF Kind(x) \notin DOMAIN serers THEN SerFailed(m, x)
    ELSE Bind(strToBytes(serers[Kind(x)][1]), LAMBDA tag :
         Bind(CallSerializer(m, serers[Kind(x)][2], x), LAMBDA payload :
         Ret(pascalify(tag) \o pascalify(payload))))

Ser(x) == SerIn("SD", x)

-----------------------------------------------------------------------------
(* Deserializers *)

_bytes_des(blob) == Ret(Obj("bytes", blob))

_str_des(blob) == Bind(bytesToStr(blob), LAMBDA t : Ret(Obj("str", t)))

_int_des(blob) == Bind(VLQToInt(blob), LAMBDA n : Ret(Obj("int", n)))

\* blob[0] == "\x00": an int is never equal to a str.
IntEqualsStr(i, s) == FALSE

\* src/SD.py, src/SerDes.py
_bool_des(blob) ==
    IF blob = <<>> THEN Raise("IndexError", <<>>)
    ELSE Ret(Obj("bool", IF IntEqualsStr(blob[1], <<0>>) THEN FALSE ELSE TRUE))

\* src/ToBeGreen/SD.py: blob == b"\x00"
ToBeGreen_bool_des(blob) == Ret(Obj("bool", IF blob = <<0>> THEN FALSE ELSE TRUE))

\* A variant of _int_des of src/ToBeGreen/SD.py that skips the sign byte.
ToBeGreen_int_des_unsigned(blob) ==
    Bind(LEB_toInt(Drop(blob, 1)), LAMBDA n : Ret(Obj("int", n)))

\* src/ToBeGreen/SD.py: the sign byte blob[0:1], then the magnitude
ToBeGreen_int_des(blob) ==
    Bind(ToBeGreen_bool_des(Take(blob, 1)), LAMBDA positive :
    Bind(LEB_toInt(Drop(blob, 1)), LAMBDA n :
    Ret(Obj("int", IF Content(positive) THEN n ELSE -n))))

RECURSIVE DesIn(_, _)

RECURSIVE ListDesLoopSkipping(_, _, _)
\* A variant of the loop of _list_des that leaves out an element whose Des
\* raises and goes on with the next one.
ListDesLoopSkipping(m, x, blob) ==
    IF blob = <<>> THEN Ret(x)
    ELSE Bind(peel(blob), LAMBDA p :
         IF IsRaise(DesIn(m, p[1])) THEN ListDesLoopSkipping(m, x, p[2])
         ELSE ListDesLoopSkipping(m, Append(x, Val(DesIn(m, p[1]))), p[2]))

RECURSIVE ListDesLoopPrepending(_, _, _)
\* A variant of the loop of _list_des that puts each decoded element ahead of
\* the ones decoded before it.
ListDesLoopPrepending(m, x, blob) ==
    IF blob = <<>> THEN Ret(x)
    ELSE Bind(peel(blob), LAMBDA p :
         Bind(DesIn(m, p[1]), LAMBDA y :
         ListDesLoopPrepending(m, <<y>> \o x, p[2])))

RECURSIVE ListDesLoop(_, _, _)
\* The `while blob != b""` loop of _list_des, x being the list built so far.
ListDesLoop(m, x, blob) ==
    IF blob = <<>> THEN Ret(x)
    ELSE Bind(peel(blob), LAMBDA p :
         Bind(DesIn(m, p[1]), LAMBDA y :
         ListDesLoop(m, Append(x, y), p[2])))

_list_des(m, blob) == Bind(ListDesLoop(m, <<>>, blob), LAMBDA x : Ret(Obj("list", x)))

_tuple_des(m, blob) == Bind(_list_des(m, blob), LAMBDA x : ToTuple(Content(x)))

_set_des(m, blob) == Bind(_list_des(m, blob), LAMBDA x : ToSet(Content(x)))

_frozenset_des(m, blob) == Bind(_list_des(m, blob), LAMBDA x : ToFrozenSet(Content(x)))

\* _list_des applied to an element of the outer list.  A bytes object is
\* decoded as written; an int, bool, set or frozenset cannot be indexed, the
\* first character of a str cannot be masked, and an empty str, list or tuple
\* has no element 0.  (Lists, tuples and dicts that can be indexed like a blob
\* are not followed further: no entry of that kind is drawn.)
ListDesOf(m, y) ==
    IF Kind(y) = "bytes" THEN _list_des(m, Content(y))
    ELSE IF Kind(y) \in {"str", "list", "tuple"} /\ Content(y) = <<>>
         THEN Raise("IndexError", <<>>)
    ELSE Raise("TypeError", <<>>)

RECURSIVE DictLoop(_, _, _)
\* dict(map(_list_des, ys)): each element is decoded when dict() asks for it,
\* must then hold exactly a key and a value, and the key must be hashable.
DictLoop(m, entries, ys) ==
    IF ys = <<>> THEN Ret(Obj("dict", entries))
    ELSE Bind(ListDesOf(m, Head(ys)), LAMBDA kv :
         IF Len(Content(kv)) # 2 THEN Raise("ValueError", <<>>)
         ELSE IF ~Hashable(Content(kv)[1]) THEN Raise("TypeError", <<>>)
         ELSE DictLoop(m, SetItem(entries, Content(kv)[1], Content(kv)[2]), Tail(ys)))

_dict_des(m, blob) == Bind(_list_des(m, blob), LAMBDA x : DictLoop(m, <<>>, Content(x)))

\* Call the deserializer a registry entry names.
CallDeserializer(m, f, blob) ==
    CASE f = "_bytes_des"        -> _bytes_des(blob)
      [] f = "_str_des"          -> _str_des(blob)
      [] f = "_int_des"          -> IF m = "ToBeGreen" THEN ToBeGreen_int_des(blob)
                                    ELSE _int_des(blob)
      [] f = "_bool_des"         -> IF m = "ToBeGreen" THEN ToBeGreen_bool_des(blob)
                                    ELSE _bool_des(blob)
      [] f = "_list_des"         -> _list_des(m, blob)
      [] f = "_tuple_des"        -> _tuple_des(m, blob)
      [] f = "_set_des"          -> _set_des(m, blob)
      [] f = "_frozenset_des"    -> _frozenset_des(m, blob)
      [] f = "_dict_des"         -> _dict_des(m, blob)

\* The except branch of Des.  src/SD.py and src/SerDes.py build the message
\* with str + name: name is unbound when peel raised, and is a bytes object
\* (which str + refuses) otherwise.  src/ToBeGreen/SD.py builds it from
\* str(blob), blob being the remainder once peel has returned.
DesFailed(m, blob, peeled) ==
    IF m = "ToBeGreen"
    THEN Raise("Exception", <<"blob", IF IsRaise(peeled) THEN blob ELSE Val(peeled)[2]>>)
    ELSE IF IsRaise(peeled) THEN Raise("UnboundLocalError", <<>>)
    ELSE Raise("TypeError", <<>>)

\* A variant of the last line of Des that uses skipVLQ instead of peel.
DesPayloadSkipVLQ(m, deserializer, blob) ==
    Bind(skipVLQ(blob), LAMBDA payload : CallDeserializer(m, deserializer, payload))

\* deserializer(peel(blob)[0]), blob being what follows the tag frame
DesPayload(m, deserializer, blob) ==
    Bind(peel(blob), LAMBDA payload : CallDeserializer(m, deserializer, payload[1]))

\* deserializer = desers[bytesToStr(name)], inside the try
DesLookup(m, blob, peeled, t) ==
    IF IsRaise(t) \/ Val(t) \notin DOMAIN desers THEN DesFailed(m, blob, peeled)
    ELSE DesPayload(m, desers[Val(t)], Val(peeled)[2])

\* [name, blob] = peel(blob), inside the try
DesPeeled(m, blob, peeled) ==
    IF IsRaise(peeled) THEN DesFailed(m, blob, peeled)
    ELSE DesLookup(m, blob, peeled, bytesToStr(Val(peeled)[1]))

DesIn(m, blob) == DesPeeled(m, blob, peel(blob))

Des(blob) == DesIn("SD", blob)

-----------------------------------------------------------------------------
(* The registries *)

InitSerers ==
    [k \in {"bytes", "str", "int", "bool", "list", "tuple", "set", "frozenset", "dict"} |->
        CASE k = "bytes"     -> <<Text(<<"b","y","t","e","s">>), "_bytes_ser">>
          [] k = "str"       -> <<Text(<<"s","t","r">>), "_str_ser">>
          [] k = "int"       -> <<Text(<<"i","n","t">>), "_int_ser">>
          [] k = "bool"      -> <<Text(<<"b","o","o","l">>), "_bool_ser">>
          [] k = "list"      -> <<Text(<<"l","i","s","t">>), "_list_ser">>
          [] k = "tuple"     -> <<Text(<<"t","u","p","l","e">>), "_tuple_ser">>
          [] k = "set"       -> <<Text(<<"s","e","t">>), "_set_ser">>
          [] k = "frozenset" -> <<Text(<<"f","r","o","z","e","n","s","e","t">>), "_frozenset_ser">>
          [] k = "dict"      -> <<Text(<<"d","i","c","t">>), "_dict_ser">>]

InitDesers ==
    [t \in {InitSerers[k][1] : k \in DOMAIN InitSerers} |->
        CASE t = Text(<<"b","y","t","e","s">>) -> "_bytes_des"
          [] t = Text(<<"s","t","r">>) -> "_str_des"
          [] t = Text(<<"i","n","t">>) -> "_int_des"
          [] t = Text(<<"b","o","o","l">>) -> "_bool_des"
          [] t = Text(<<"l","i","s","t">>) -> "_list_des"
          [] t = Text(<<"t","u","p","l","e">>) -> "_tuple_des"
          [] t = Text(<<"s","e","t">>) -> "_set_des"
          [] t = Text(<<"f","r","o","z","e","n","s","e","t">>) -> "_frozenset_des"
          [] t = Text(<<"d","i","c","t">>) -> "_dict_des"]

-----------------------------------------------------------------------------
(* src/V.py: type specifications.  A specification is a type, <<"type", kind>>,
   or an instance of a VERIFYABLE class with its attributes. *)

TypeSpec(kind) == <<"type", kind>>

SUM(args) == <<"SUM", args>>

PRODUCT(args) == <<"PRODUCT", args>>

ITERABLE(tipo, subtipo) == <<"ITERABLE", tipo, subtipo>>

DICT(KVtipo) == <<"DICT", KVtipo>>

\* isinstance(spec, VERIFYABLE)
VERIFYABLE(spec) == spec[1] \in {"SUM", "PRODUCT", "ITERABLE", "DICT"}

\* isinstance(obj, tipo) for a type: the type of obj, or int for a bool.
IsInstance(obj, kind) == Kind(obj) = kind \/ (Kind(obj) = "bool" /\ kind = "int")

\* What iterating an object yields: the elements of a container, the keys of
\* a dict, the characters of a str, the bytes of a blob as ints; other
\* objects are not iterable.
Iterate(obj) ==
    IF Kind(obj) \in {"list", "tuple", "set", "frozenset"} THEN Ret(Content(obj))
    ELSE IF Kind(obj) = "dict"
         THEN Ret([i \in 1..Len(Content(obj)) |-> Content(obj)[i][1]])
    ELSE IF Kind(obj) = "str"
         THEN Ret([i \in 1..Len(Content(obj)) |-> Obj("str", <<Content(obj)[i]>>)])
    ELSE IF Kind(obj) = "bytes"
         THEN Ret([i \in 1..Len(Content(obj)) |-> Obj("int", Content(obj)[i])])
    ELSE Raise("TypeError", <<>>)

\* len(obj)
PyLen(obj) == Bind(Iterate(obj), LAMBDA ys : Ret(Len(ys)))

RECURSIVE Ver(_, _)

RECURSIVE AnyVer(_, _)
\* any(map(lambda tipo: Ver(obj, tipo), args)): the alternatives are tried in
\* order, up to the first that accepts; an exception ends the search.
AnyVer(obj, args) ==
    IF args = <<>> THEN Ret(FALSE)
    ELSE Bind(Ver(obj, Head(args)), LAMBDA b :
         IF b THEN Ret(TRUE) ELSE AnyVer(obj, Tail(args)))

RECURSIVE AllVerPairs(_, _)
\* all(map(lambda obj, arg: Ver(obj, arg), objs, args)): pairs are tried in
\* order, up to the first that is rejected or the end of the shorter sequence.
AllVerPairs(objs, args) ==
    IF objs = <<>> \/ args = <<>> THEN Ret(TRUE)
    ELSE Bind(Ver(Head(objs), Head(args)), LAMBDA b :
         IF b THEN AllVerPairs(Tail(objs), Tail(args)) ELSE Ret(FALSE))

RECURSIVE AllVer(_, _)
\* all(map(lambda obj: Ver(obj, subtipo), objs))
AllVer(objs, subtipo) ==
    IF objs = <<>> THEN Ret(TRUE)
    ELSE Bind(Ver(Head(objs), subtipo), LAMBDA b :
         IF b THEN AllVer(Tail(objs), subtipo) ELSE Ret(FALSE))

SUM_verify(self, obj) == AnyVer(obj, self[2])

\* A variant of PRODUCT.verify without the comparison of the lengths.
PRODUCT_verify_zip(self, objs) ==
    Bind(Iterate(objs), LAMBDA ys : AllVerPairs(ys, self[2]))

PRODUCT_verify(self, objs) ==
    Bind(PyLen(objs), LAMBDA n :
    IF n # Len(self[2]) THEN Ret(FALSE)
    ELSE AllVerPairs(Val(Iterate(objs)), self[2]))

\* if type(obj) != self.tipo: return False; else VERIFYABLE.verify: True
CUSTOM_verify(tipo, obj) == Kind(obj) = tipo

\* A variant of ITERABLE.verify that takes a container of any type.
ITERABLE_verify_any(self, objs) ==
    Bind(Iterate(objs), LAMBDA ys : AllVer(ys, self[3]))

ITERABLE_verify(self, objs) ==
    IF ~CUSTOM_verify(self[2], objs) THEN Ret(FALSE)
    ELSE Bind(Iterate(objs), LAMBDA ys : AllVer(ys, self[3]))

RECURSIVE AllKV(_, _)
\* all(starmap(lambda k, v: self.KVtipo.verify([k, v]), objs.items())): a
\* KVtipo that is a plain type has no attribute verify.
AllKV(items, KVtipo) ==
    IF items = <<>> THEN Ret(TRUE)
    ELSE IF ~VERIFYABLE(KVtipo) THEN Raise("AttributeError", <<>>)
    ELSE Bind(Ver(Obj("list", Head(items)), KVtipo), LAMBDA b :
         IF b THEN AllKV(Tail(items), KVtipo) ELSE Ret(FALSE))

DICT_verify(self, objs) ==
    IF ~CUSTOM_verify("dict", objs) THEN Ret(FALSE)
    ELSE AllKV(Content(objs), self[2])

Ver(obj, spec) ==
    IF VERIFYABLE(spec)
    THEN CASE spec[1] = "SUM"      -> SUM_verify(spec, obj)
           [] spec[1] = "PRODUCT"  -> PRODUCT_verify(spec, obj)
           [] spec[1] = "ITERABLE" -> ITERABLE_verify(spec, obj)
           [] spec[1] = "DICT"     -> DICT_verify(spec, obj)
    ELSE Ret(IsInstance(obj, spec[2]))

-----------------------------------------------------------------------------
(* The arguments the calls are given *)

\* The most elements a container object holds.
MaxLen == 2

\* The longest blob written byte by byte.
MaxBlob == 2

\* The longest run of bytes that follows a VLQ, a frame or a serialized object.
MaxTail == 1

\* Every integer up to MaxInt is encoded, and the ones of BigInts.
MaxInt == 300

SeqsUpTo(S, n) == UNION {[1..k -> S] : k \in 0..n}

ByteSamples == {0, 1, 127, 128, 129, 255}

Blobs == SeqsUpTo(ByteSamples, MaxBlob)

\* Blobs long enough for a length of two bytes.
LongBlobs == {[i \in 1..n |-> 7] : n \in {127, 128, 129, 300}}

Tails == SeqsUpTo({0, 128, 255}, MaxTail)

BigInts == {16383, 16384, 246537, 2097151, 2097152}

Ints == 0..MaxInt \cup BigInts \cup {-n : n \in {1, 128, 246537}}

\* "a", then e-acute and the euro sign (two and three bytes), then a character
\* beyond the basic plane (four bytes), then a lone surrogate.
StrSamples == {<<>>, <<97>>, <<233, 8364>>, <<128512>>, <<55296>>}

Atoms ==
    {Obj("bytes", b) : b \in {<<>>, <<0>>, <<255, 128>>}}
    \cup {Obj("str", t) : t \in StrSamples}
    \cup {Obj("int", i) : i \in {-129, -1, 0, 1, 128}}
    \cup {Obj("bool", b) : b \in BOOLEAN}
    \cup {PyNone}

PairwiseDistinct(s) == \A i, j \in 1..Len(s) : i < j => ~PyEq(s[i], s[j])

\* The list, tuple, set and frozenset objects over a pool of elements.
Collections(pool, n) ==
    {Obj(k, s) : k \in {"list", "tuple"}, s \in SeqsUpTo(pool, n)}
    \cup {Obj(k, s) : k \in {"set", "frozenset"},
                      s \in {t \in SeqsUpTo({e \in pool : Hashable(e)}, n) :
                                PairwiseDistinct(t)}}

\* The dict objects with keys and values of two pools.
Dicts(keys, values, n) ==
    {Obj("dict", e) : e \in {t \in SeqsUpTo({k \in keys : Hashable(k)} \X values, n) :
                                PairwiseDistinct([i \in 1..Len(t) |-> t[i][1]])}}

Pool0 ==
    {Obj("bytes", <<0>>), Obj("str", <<97>>), Obj("int", 1),
     Obj("bool", TRUE), Obj("bool", FALSE), PyNone}

Level1 ==
    Collections(Pool0, MaxLen)
    \cup Dicts({Obj("str", <<97>>), Obj("int", 1), Obj("bool", TRUE)},
               {Obj("bytes", <<0>>), Obj("bool", FALSE), PyNone}, MaxLen)

Pool1 ==
    {Obj("list", <<>>), Obj("list", <<Obj("int", 1)>>),
     Obj("tuple", <<Obj("str", <<97>>)>>), Obj("frozenset", <<Obj("int", 1)>>),
     Obj("set", <<>>), Obj("dict", << <<Obj("str", <<97>>), Obj("bool", FALSE)>> >>)}

Level2 ==
    Collections(Pool1, MaxLen)
    \cup Dicts(Pool1, {Obj("list", <<Obj("int", 1)>>), Obj("set", <<>>),
                       Obj("int", 5)}, MaxLen)

\* Containers that hold, two levels down, an object Ser raises for: None, or
\* a str with a lone surrogate.
DeepFailing ==
    {Obj("list", <<Obj("list", <<PyNone>>)>>),
     Obj("frozenset", <<Obj("tuple", <<PyNone, Obj("int", 1)>>)>>),
     Obj("dict", << <<Obj("int", 1), Obj("tuple", <<Obj("str", <<55296>>)>>)>> >>)}

\* Equal sets that CPython iterates in different orders: 0 and 8 fall in the
\* same slot of the hash table, and the one inserted first comes first.
CollidingSets ==
    {Obj(k, s) : k \in {"set", "frozenset"},
                 s \in {<<Obj("int", 0), Obj("int", 8)>>, <<Obj("int", 8), Obj("int", 0)>>}}

\* The last two are serialized with frames whose length takes two bytes.
Objects ==
    Atoms \cup Level1 \cup Level2 \cup DeepFailing \cup CollidingSets
    \cup {Obj("bytes", [i \in 1..130 |-> 7]),
          Obj("list", <<Obj("bytes", [i \in 1..130 |-> 7]), Obj("str", <<97>>)>>)}

\* The objects every module is given, and whose serialization is also cut short.
SmallObjects ==
    Atoms \cup Pool1
    \cup {Obj("list", <<Obj("int", 1), Obj("str", <<97>>)>>),
          Obj("list", <<Obj("int", -1), Obj("bool", FALSE)>>),
          Obj("set", <<Obj("int", -1), Obj("int", 1)>>),
          Obj("dict", << <<Obj("int", 1), Obj("bytes", <<0>>)>> >>)}

\* Tag names without a registry entry.
UnknownTags ==
    {Text(<<"b","o","g","u","s">>), Text(<<"f","l","o","a","t">>), <<>>,
     <<73, 110, 116>>}

\* The most alternatives of a SUM and factors of a PRODUCT.
MaxArgs == 2

Types == {TypeSpec(k) : k \in {"int", "str", "list"}}

\* Specifications over types.
Specs1 ==
    {SUM(a) : a \in SeqsUpTo(Types, MaxArgs)}
    \cup {PRODUCT(a) : a \in SeqsUpTo(Types, MaxArgs)}
    \cup {ITERABLE(k, t) : k \in {"list", "tuple", "set", "frozenset"}, t \in Types}
    \cup {DICT(TypeSpec("int")), DICT(PRODUCT(<<TypeSpec("int"), TypeSpec("str")>>))}

\* Specifications over specifications.
Specs2 ==
    LET pool == {TypeSpec("int"), TypeSpec("str"),
                 PRODUCT(<<TypeSpec("int")>>),
                 PRODUCT(<<TypeSpec("int"), TypeSpec("str")>>),
                 ITERABLE("list", TypeSpec("int")), SUM(<<>>),
                 DICT(PRODUCT(<<TypeSpec("int"), TypeSpec("str")>>))}
    IN  {SUM(a) : a \in SeqsUpTo(pool, MaxArgs)}
        \cup {PRODUCT(a) : a \in SeqsUpTo(pool, MaxArgs)}
        \cup {ITERABLE(k, t) : k \in {"list", "set"}, t \in pool}
        \cup {DICT(t) : t \in pool}

Specs == Types \cup Specs1 \cup Specs2

\* The objects verified.
VerObjects ==
    {Obj("int", 5), Obj("bool", TRUE), Obj("str", <<97>>), Obj("str", <<97, 98>>),
     PyNone, Obj("list", <<>>), Obj("list", <<Obj("int", 1)>>),
     Obj("list", <<Obj("int", 1), Obj("str", <<97>>)>>),
     Obj("tuple", <<Obj("int", 1), Obj("str", <<97>>)>>),
     Obj("set", <<Obj("int", 1), Obj("str", <<97>>)>>),
     Obj("list", <<Obj("list", <<Obj("int", 1)>>), Obj("int", 2)>>),
     Obj("tuple", <<>>), Obj("dict", <<>>),
     Obj("dict", << <<Obj("int", 1), Obj("str", <<97>>)>> >>),
     Obj("dict", << <<Obj("int", 1), Obj("str", <<97>>)>>,
                    <<Obj("str", <<97>>), Obj("int", 1)>> >>)}

\* VLQs that are not the shortest: one or two empty groups (0x80) ahead of
\* the encoding of n, followed by any bytes.
PaddedVLQs ==
    {pad \o intToVLQ(n) \o X : pad \in {<<128>>, <<128, 128>>},
                                n \in {0, 5, 128}, X \in Tails}

\* Tag frames that are not UTF-8: a byte that starts no sequence, a lead byte
\* without its continuation, an encoded surrogate.
BadTagBytes == {<<255>>, <<195>>, <<237, 160, 128>>}

\* Encoded units whose Des raises: no bytes at all, a unit of an unregistered
\* tag, a str unit whose payload is not UTF-8, and a list unit that holds the
\* latter.
BadUnits ==
    LET bogus  == pascalify(<<98, 111, 103, 117, 115>>) \o pascalify(<<0>>)
        badstr == pascalify(<<115, 116, 114>>) \o pascalify(<<255>>)
    IN  {<<>>, bogus, badstr,
         pascalify(<<108, 105, 115, 116>>) \o pascalify(pascalify(badstr))}

\* The tag names of the container kinds.
ContainerTags == {InitSerers[k][1] : k \in {"list", "tuple", "set", "frozenset", "dict"}}

-----------------------------------------------------------------------------
(* The calls *)

VqIdle == [pc |-> "idle", blob |-> <<>>, n |-> 0]

\* No call is run one iteration at a time.  Inside one: pc is "all" for
\* all(map(...)) of a verify and "while" for the loop of _list_des, todo what
\* the iterator has left (pairs of object and specification, or bytes), x the
\* list _list_des has built, calls the arguments of the Ver or Des calls made
\* so far, in order, out the outcome once pc is "done".
ItIdle == [pc |-> "idle", todo |-> <<>>, x |-> <<>>, calls |-> <<>>, out |-> Ret(<<>>)]

\* The threads that call Ser and Des at the same time.
MaxThreads == 2

Threads == 1..MaxThreads

\* A thread outside any call.  Inside one: f is "Ser" or "Des", input its
\* argument, name and fn the registry entry it found, todo what its loop has
\* left (objects for _list_ser, bytes for Des and _list_des), acc the list x
\* of _list_des, out the outcome of the call.
ThreadIdle ==
    [pc |-> "idle", f |-> "none", input |-> <<>>, name |-> <<>>, fn |-> "none",
     todo |-> <<>>, acc |-> <<>>, out |-> Ret(<<>>)]

\* No thread is inside a call: the calls that are followed one at a time are
\* made then.
NoThread == \A p \in Threads : threads[p].pc = "idle"

\* What the threads are given: objects for Ser, blobs for Des.
SerJobs ==
    {Obj("list", <<Obj("int", 1), Obj("str", <<97>>)>>),
     Obj("set", <<Obj("int", 2), Obj("int", 1)>>),
     Obj("tuple", <<Obj("bytes", <<0>>), PyNone>>),
     Obj("int", 128), PyNone}

DesJobs ==
    {Val(SerIn("SD", x)) : x \in {Obj("list", <<Obj("int", 1), Obj("str", <<97>>)>>),
                                  Obj("frozenset", <<Obj("int", 2), Obj("int", 1)>>),
                                  Obj("str", <<233, 8364>>)}}
    \cup {pascalify(<<98, 111, 103, 117, 115>>) \o pascalify(<<0>>),
          pascalify(<<108, 105, 115, 116>>) \o pascalify(pascalify(<<>>)),
          <<128>>, <<3, 105, 110, 116, 128>>}

Init ==
    /\ serers = InitSerers
    /\ desers = InitDesers
    /\ mod = "SD"
    /\ op = "none"
    /\ arg = <<>>
    /\ ret = Ret(<<>>)
    /\ origin = <<"none">>
    /\ vq = VqIdle
    /\ it = ItIdle
    /\ threads = [p \in Threads |-> ThreadIdle]
    /\ blobs = [p \in Threads |-> <<>>]

\* A variant of a call in which a failed Ser registers the kind it did not
\* find, with the serializer of bytes.
CallRegistering(m, f, a, r, o) ==
    /\ mod' = m
    /\ op' = f
    /\ arg' = a
    /\ ret' = r
    /\ origin' = o
    /\ serers' = IF f = "Ser" /\ IsRaise(r) /\ Kind(a) \notin DOMAIN serers
                 THEN [k \in DOMAIN serers \cup {Kind(a)} |->
                         IF k \in DOMAIN serers THEN serers[k]
                         ELSE <<<<>>, "_bytes_ser">>]
                 ELSE serers
    /\ desers' = desers
    /\ UNCHANGED <<threads, blobs>>

\* A call of function f of module m with argument a, whose outcome is r.  No
\* function of the modules assigns to a registry.
Call(m, f, a, r, o) ==
    /\ mod' = m
    /\ op' = f
    /\ arg' = a
    /\ ret' = r
    /\ origin' = o
    /\ UNCHANGED <<serers, desers>>
    /\ UNCHANGED <<threads, blobs>>

CallSer ==
    /\ op = "none" /\ NoThread
    /\ \E m \in Modules : \E x \in (IF m = "SD" THEN Objects ELSE SmallObjects) :
        Call(m, "Ser", x, SerIn(m, x), <<"object">>)
    /\ vq' = VqIdle
    /\ it' = ItIdle

\* Des of what Ser returned, followed by any bytes.
CallDes ==
    /\ op = "Ser" /\ IsRet(ret)
    /\ \E X \in Tails :
        Call(mod, "Des", Val(ret) \o X, DesIn(mod, Val(ret) \o X), <<"Ser", arg, X>>)
    /\ vq' = VqIdle
    /\ it' = ItIdle

\* Des of the first k bytes of what Ser returned.
CallDesTruncated ==
    /\ op = "Ser" /\ IsRet(ret) /\ arg \in SmallObjects
    /\ \E k \in 0..(Len(Val(ret)) - 1) :
        Call(mod, "Des", Take(Val(ret), k), DesIn(mod, Take(Val(ret), k)),
             <<"truncated", arg, k>>)
    /\ vq' = VqIdle
    /\ it' = ItIdle

\* Des of the payload frame of what Ser returned behind another tag frame.
CallDesRetagged ==
    /\ op = "Ser" /\ IsRet(ret) /\ arg \in SmallObjects
    /\ \E t \in UnknownTags :
        LET payload == CallSerializer(mod, serers[Kind(arg)][2], arg)
            blob    == pascalify(EncodeUTF8(t)) \o pascalify(Val(payload))
        IN  Call(mod, "Des", blob, DesIn(mod, blob), <<"retagged", arg, t>>)
    /\ vq' = VqIdle
    /\ it' = ItIdle

CallDesRaw ==
    /\ op = "none" /\ NoThread
    /\ \E m \in Modules : \E b \in Blobs :
        Call(m, "Des", b, DesIn(m, b), <<"raw">>)
    /\ vq' = VqIdle
    /\ it' = ItIdle

\* Des of a tag frame and a payload frame written by hand: the tag bytes of a
\* registry entry, or bytes that are not UTF-8, then any payload.
CallDesFramed ==
    /\ op = "none" /\ NoThread
    /\ \E m \in Modules :
       \E t \in {EncodeUTF8(n) : n \in DOMAIN desers} \cup BadTagBytes :
       \E p \in Blobs :
        LET blob == pascalify(t) \o pascalify(p)
        IN  Call(m, "Des", blob, DesIn(m, blob), <<"framed", t, p>>)
    /\ vq' = VqIdle
    /\ it' = ItIdle

\* Des of a container unit written by hand, whose payload frames what Ser
\* returned and a unit of BadUnits, in either order.
CallDesNested ==
    /\ op = "Ser" /\ IsRet(ret) /\ arg \in SmallObjects
    /\ \E t \in ContainerTags : \E bad \in BadUnits : \E first \in BOOLEAN :
        LET good    == pascalify(Val(ret))
            payload == IF first THEN pascalify(bad) \o good ELSE good \o pascalify(bad)
            blob    == pascalify(EncodeUTF8(t)) \o pascalify(payload)
        IN  Call(mod, "Des", blob, DesIn(mod, blob), <<"nested", t, payload>>)
    /\ vq' = VqIdle
    /\ it' = ItIdle

CallIntToVLQ ==
    /\ op = "none" /\ NoThread
    /\ \E n \in Ints : Call("SD", "intToVLQ", n, Ret(intToVLQ(n)), <<"int">>)
    /\ vq' = VqIdle
    /\ it' = ItIdle

\* VLQToInt of what intToVLQ returned, followed by any bytes.
CallVLQToInt ==
    /\ op = "intToVLQ"
    /\ \E X \in Tails :
        Call("SD", "VLQToInt", Val(ret) \o X, VLQToInt(Val(ret) \o X),
             <<"intToVLQ", arg, X>>)
    /\ vq' = [pc |-> "loop", blob |-> arg', n |-> 0]
    /\ it' = ItIdle

CallVLQToIntRaw ==
    /\ op = "none" /\ NoThread
    /\ \E b \in Blobs \cup PaddedVLQs : Call("SD", "VLQToInt", b, VLQToInt(b), <<"raw">>)
    /\ vq' = [pc |-> "loop", blob |-> arg', n |-> 0]
    /\ it' = ItIdle

\* One iteration of the loop of VLQToInt (src/SD.py lines 109-115).
VLQToIntIterate ==
    /\ vq.pc = "loop"
    /\ vq' = IF vq.blob = <<>>
             THEN [vq EXCEPT !.pc = "IndexError"]
             ELSE LET x == Head(vq.blob)
                  IN  [pc   |-> IF ~(x >= 128) THEN "return" ELSE "loop",
                       blob |-> Tail(vq.blob),
                       n    |-> vq.n * 128 + (x % 128)]
    /\ UNCHANGED <<serers, desers, mod, op, arg, ret, origin, it, threads, blobs>>

\* _int_ser of src/ToBeGreen/SD.py, called on its own.
CallIntSer ==
    /\ op = "none" /\ NoThread
    /\ \E n \in Ints :
        Call("ToBeGreen", "_int_ser", Obj("int", n), ToBeGreen_int_ser(Obj("int", n)),
             <<"int">>)
    /\ vq' = VqIdle
    /\ it' = ItIdle

\* _int_des of src/ToBeGreen/SD.py, of what _int_ser returned.
CallIntDes ==
    /\ op = "_int_ser"
    /\ Call("ToBeGreen", "_int_des", Val(ret), ToBeGreen_int_des(Val(ret)),
            <<"_int_ser", arg>>)
    /\ vq' = VqIdle
    /\ it' = ItIdle

\* Ver(obj, spec) of src/V.py
CallVer ==
    /\ op = "none" /\ NoThread
    /\ \E spec \in Specs : \E obj \in VerObjects :
        Call("V", "Ver", <<obj, spec>>, Ver(obj, spec), <<"V">>)
    /\ vq' = VqIdle
    /\ it' = ItIdle

\* spec.verify(objs) of a PRODUCT or an ITERABLE, run one Ver call at a time:
\* the statements ahead of all(map(...)), that is the comparison of the
\* lengths (src/V.py lines 96-97) or of the types (lines 75-76, 110), then
\* the making of the iterator, which calls Ver for no pair yet.
CallVerify ==
    /\ op = "none" /\ NoThread
    /\ \E self \in {s \in Specs : s[1] \in {"PRODUCT", "ITERABLE"}} : \E objs \in VerObjects :
        LET done(r) == [ItIdle EXCEPT !.pc = "done", !.out = r]
            all(pairs) == [ItIdle EXCEPT !.pc = "all", !.todo = pairs]
            ys == Val(Iterate(objs))
        IN  /\ Call("V", "verify", <<objs, self>>, Ver(objs, self), <<"V">>)
            /\ it' = IF self[1] = "PRODUCT"
                      THEN IF IsRaise(PyLen(objs)) THEN done(PyLen(objs))
                           ELSE IF Val(PyLen(objs)) # Len(self[2]) THEN done(Ret(FALSE))
                           ELSE all([i \in 1..Len(self[2]) |-> <<ys[i], self[2][i]>>])
                      ELSE IF ~CUSTOM_verify(self[2], objs) THEN done(Ret(FALSE))
                           ELSE IF IsRaise(Iterate(objs)) THEN done(Iterate(objs))
                           ELSE all([i \in 1..Len(ys) |-> <<ys[i], self[3]>>])
    /\ vq' = VqIdle

\* A variant of all(map(...)) that builds the list of every result first, as
\* a list comprehension would, and looks at the results afterwards.
VerifyAllEager ==
    /\ it.pc = "all"
    /\ it' = [it EXCEPT !.pc = "done", !.todo = <<>>, !.calls = @ \o it.todo,
                        !.out = AllVerPairs([i \in 1..Len(it.todo) |-> it.todo[i][1]],
                                            [i \in 1..Len(it.todo) |-> it.todo[i][2]])]
    /\ UNCHANGED <<serers, desers, mod, op, arg, ret, origin, vq, threads, blobs>>

\* One step of all(map(lambda obj, arg: Ver(obj, arg), ...)): all() asks the
\* iterator for the next result, which calls Ver for the next pair, and
\* returns False at the first result that is false, True when the iterator
\* is exhausted.
VerifyAll ==
    /\ it.pc = "all"
    /\ it' = IF it.todo = <<>> THEN [it EXCEPT !.pc = "done", !.out = Ret(TRUE)]
             ELSE LET pair == Head(it.todo)
                      r    == Ver(pair[1], pair[2])
                  IN  IF IsRaise(r) \/ ~Val(r)
                      THEN [it EXCEPT !.pc = "done", !.calls = Append(@, pair),
                                      !.out = IF IsRaise(r) THEN r ELSE Ret(FALSE)]
                      ELSE [it EXCEPT !.todo = Tail(@), !.calls = Append(@, pair)]
    /\ UNCHANGED <<serers, desers, mod, op, arg, ret, origin, vq, threads, blobs>>

CallSkipVLQ ==
    /\ op = "none" /\ NoThread
    /\ \E b \in Blobs : Call("SD", "skipVLQ", b, skipVLQ(b), <<"raw">>)
    /\ vq' = VqIdle
    /\ it' = ItIdle

\* skipVLQ of the blob VLQToInt was given, once the loop of VLQToInt has
\* ended: the two calls depascalify makes (src/SD.py line 132).
CallSkipVLQAfter ==
    /\ op = "VLQToInt" /\ vq.pc \in {"return", "IndexError"}
    /\ Call("SD", "skipVLQ", arg, skipVLQ(arg), <<"VLQToInt", vq.pc, vq.blob>>)
    /\ vq' = VqIdle
    /\ it' = ItIdle

CallDepascalify ==
    /\ op = "none" /\ NoThread
    /\ \E b \in Blobs \cup PaddedVLQs :
        Call("SD", "depascalify", b, depascalify(b), <<"raw">>)
    /\ vq' = VqIdle
    /\ it' = ItIdle

CallPascalify ==
    /\ op = "none" /\ NoThread
    /\ \E P \in Blobs \cup LongBlobs :
        Call("SD", "pascalify", P, Ret(pascalify(P)), <<"blob">>)
    /\ vq' = VqIdle
    /\ it' = ItIdle

\* peel of what pascalify returned, followed by any bytes.
CallPeel ==
    /\ op = "pascalify"
    /\ \E X \in Tails :
        Call("SD", "peel", Val(ret) \o X, peel(Val(ret) \o X), <<"pascalify", arg, X>>)
    /\ vq' = VqIdle
    /\ it' = ItIdle

CallPeelRaw ==
    /\ op = "none" /\ NoThread
    /\ \E b \in Blobs : Call("SD", "peel", b, peel(b), <<"raw">>)
    /\ vq' = VqIdle
    /\ it' = ItIdle

\* The caller drops the argument and the outcome of the last call.
Forget ==
    /\ op # "none"
    /\ Call("SD", "none", <<>>, Ret(<<>>), <<"none">>)
    /\ vq' = VqIdle
    /\ it' = ItIdle

\* A variant of Frame in which the `blob` of _list_ser is one module-level
\* variable instead of a local of each call.
SharedFrame(p) == 1

\* The frame that holds the locals of the call thread p runs: its own.
Frame(p) == p

ListSerializers == {"_list_ser", "_tuple_ser", "_set_ser", "_frozenset_ser"}

ListDeserializers == {"_list_des", "_tuple_des", "_set_des", "_frozenset_des"}

\* The _list_des call a Des call makes, run one iteration at a time.  Des
\* hands the payload frame to _list_des, or to a deserializer that starts by
\* calling _list_des on it; _dict_des then calls _list_des again on each
\* element the first call returned, here on one that was decoded as bytes.
CallListDes ==
    /\ op = "Des"
    /\ \/ /\ IsRet(peel(arg))
          /\ LET name == bytesToStr(Val(peel(arg))[1])
                 blob == Val(peel(arg))[2]
             IN  /\ IsRet(name) /\ Val(name) \in DOMAIN desers
                 /\ desers[Val(name)] \in ListDeserializers \cup {"_dict_des"}
                 /\ IsRet(peel(blob))
                 /\ Call(mod, "_list_des", Val(peel(blob))[1],
                         _list_des(mod, Val(peel(blob))[1]), <<"Des", arg>>)
       \/ /\ origin[1] = "_list_des" /\ IsRet(ret) /\ Kind(Val(ret)) = "bytes"
          /\ bytesToStr(Val(peel(origin[3]))[1]) = Ret(Text(<<"d","i","c","t">>))
          /\ Call(mod, "_list_des", Content(Val(ret)), ListDesOf(mod, Val(ret)),
                  <<"_dict_des", arg>>)
    /\ it' = [ItIdle EXCEPT !.pc = "while", !.todo = arg']
    /\ vq' = VqIdle

\* A variant of the loop body of _list_des that hands Des all the bytes the
\* loop has left, instead of the frame peeled from them.
ListDesIterateWhole ==
    /\ it.pc = "while"
    /\ it' = IF it.todo = <<>>
             THEN [it EXCEPT !.pc = "done", !.out = Ret(Obj("list", it.x))]
             ELSE LET r == peel(it.todo)
                  IN  IF IsRaise(r) THEN [it EXCEPT !.pc = "done", !.out = r]
                      ELSE LET d == DesIn(mod, it.todo)
                           IN  IF IsRaise(d)
                               THEN [it EXCEPT !.pc = "done", !.out = d, !.todo = Val(r)[2],
                                               !.calls = Append(@, it.todo)]
                               ELSE [it EXCEPT !.todo = Val(r)[2], !.x = Append(@, Val(d)),
                                               !.calls = Append(@, it.todo)]
    /\ UNCHANGED <<serers, desers, mod, op, arg, ret, origin, vq, threads, blobs>>

\* The test of the `while blob != b""` loop of _list_des and one run of its
\* body: [y, blob] = peel(blob), then x.append(Des(y)); `return x` when the
\* test fails.
ListDesIterate ==
    /\ it.pc = "while"
    /\ it' = IF it.todo = <<>>
             THEN [it EXCEPT !.pc = "done", !.out = Ret(Obj("list", it.x))]
             ELSE LET r == peel(it.todo)
                  IN  IF IsRaise(r) THEN [it EXCEPT !.pc = "done", !.out = r]
                      ELSE LET y == Val(r)[1]
                               d == DesIn(mod, y)
                           IN  IF IsRaise(d)
                               THEN [it EXCEPT !.pc = "done", !.out = d, !.todo = Val(r)[2],
                                               !.calls = Append(@, y)]
                               ELSE [it EXCEPT !.todo = Val(r)[2], !.x = Append(@, Val(d)),
                                               !.calls = Append(@, y)]
    /\ UNCHANGED <<serers, desers, mod, op, arg, ret, origin, vq, threads, blobs>>

\* The Des(y) call the loop body of _list_des has just made.
CallDesElement ==
    /\ op = "_list_des" /\ it.calls # <<>>
    /\ LET y == it.calls[Len(it.calls)]
       IN  Call(mod, "Des", y, DesIn(mod, y), <<"_list_des", arg, origin[2]>>)
    /\ vq' = VqIdle
    /\ it' = ItIdle

\* Thread p goes on, alone of all threads, and no call of the ones above is made.
ThreadStep(p, t, b) ==
    /\ threads' = [threads EXCEPT ![p] = t]
    /\ blobs' = b
    /\ UNCHANGED <<serers, desers, mod, op, arg, ret, origin, vq, it>>

ThreadDone(p, r) == [threads[p] EXCEPT !.pc = "done", !.out = r]

\* Thread p calls Ser or Des.
ThreadCall(p) ==
    /\ op = "none" /\ threads[p].pc = "idle"
    /\ \/ \E x \in SerJobs :
            ThreadStep(p, [ThreadIdle EXCEPT !.pc = "Ser", !.f = "Ser", !.input = x], blobs)
       \/ \E b \in DesJobs :
            ThreadStep(p, [ThreadIdle EXCEPT !.pc = "Des", !.f = "Des", !.input = b], blobs)

\* [name, serializer] = serers[type(x)], and the first line of _list_ser when
\* the serializer is _list_ser or one that calls it.
ThreadSerLookup(p) ==
    LET t == threads[p]
    IN  /\ t.pc = "Ser"
        /\ IF Kind(t.input) \notin DOMAIN serers
           THEN ThreadStep(p, ThreadDone(p, SerFailed("SD", t.input)), blobs)
           ELSE LET e == serers[Kind(t.input)]
                IN  IF e[2] \in ListSerializers
                    THEN ThreadStep(p, [t EXCEPT !.pc = "_list_ser", !.name = e[1],
                                                 !.fn = e[2], !.todo = Content(t.input)],
                                    [blobs EXCEPT ![Frame(p)] = <<>>])
                    ELSE ThreadStep(p, [t EXCEPT !.pc = "serializer", !.name = e[1],
                                                 !.fn = e[2]], blobs)

\* One iteration of the loop of _list_ser: blob += pascalify(Ser(y))
ThreadListSerLoop(p) ==
    LET t == threads[p]
    IN  /\ t.pc = "_list_ser" /\ t.todo # <<>>
        /\ IF IsRaise(SerIn("SD", Head(t.todo)))
           THEN ThreadStep(p, ThreadDone(p, SerIn("SD", Head(t.todo))), blobs)
           ELSE ThreadStep(p, [t EXCEPT !.todo = Tail(t.todo)],
                           [blobs EXCEPT ![Frame(p)] =
                               @ \o pascalify(Val(SerIn("SD", Head(t.todo))))])

\* return pascalify(strToBytes(name)) + pascalify(serializer(x)), the
\* serializer being called here unless it is the loop that just ended.
ThreadSerReturn(p) ==
    LET t == threads[p]
    IN  /\ \/ t.pc = "serializer"
           \/ t.pc = "_list_ser" /\ t.todo = <<>>
        /\ ThreadStep(p, ThreadDone(p,
                Bind(strToBytes(t.name), LAMBDA tag :
                Bind(IF t.pc = "serializer" THEN CallSerializer("SD", t.fn, t.input)
                     ELSE Ret(blobs[Frame(p)]), LAMBDA payload :
                Ret(pascalify(tag) \o pascalify(payload))))), blobs)

\* [name, blob] = peel(blob)
ThreadDesPeel(p) ==
    LET t == threads[p]
        r == peel(t.input)
    IN  /\ t.pc = "Des"
        /\ IF IsRaise(r)
           THEN ThreadStep(p, ThreadDone(p, DesFailed("SD", t.input, r)), blobs)
           ELSE ThreadStep(p, [t EXCEPT !.pc = "Des_lookup", !.name = Val(r)[1],
                                        !.todo = Val(r)[2]], blobs)

\* deserializer = desers[bytesToStr(name)]
ThreadDesLookup(p) ==
    LET t == threads[p]
        n == bytesToStr(t.name)
    IN  /\ t.pc = "Des_lookup"
        /\ IF IsRaise(n) \/ Val(n) \notin DOMAIN desers
           THEN ThreadStep(p, ThreadDone(p,
                    DesFailed("SD", t.input, Ret(<<t.name, t.todo>>))), blobs)
           ELSE ThreadStep(p, [t EXCEPT !.pc = "Des_payload", !.fn = desers[Val(n)]], blobs)

\* peel(blob)[0], handed to the deserializer: the loop of _list_des starts,
\* or another deserializer runs to its end.
ThreadDesPayload(p) ==
    LET t == threads[p]
        r == peel(t.todo)
    IN  /\ t.pc = "Des_payload"
        /\ IF IsRaise(r) THEN ThreadStep(p, ThreadDone(p, r), blobs)
           ELSE IF t.fn \in ListDeserializers
           THEN ThreadStep(p, [t EXCEPT !.pc = "_list_des", !.todo = Val(r)[1],
                                        !.acc = <<>>], blobs)
           ELSE ThreadStep(p, ThreadDone(p, CallDeserializer("SD", t.fn, Val(r)[1])), blobs)

\* One iteration of the loop of _list_des: [y, blob] = peel(blob), then
\* x.append(Des(y))
ThreadListDesLoop(p) ==
    LET t == threads[p]
        r == peel(t.todo)
    IN  /\ t.pc = "_list_des" /\ t.todo # <<>>
        /\ IF IsRaise(r) THEN ThreadStep(p, ThreadDone(p, r), blobs)
           ELSE IF IsRaise(DesIn("SD", Val(r)[1]))
           THEN ThreadStep(p, ThreadDone(p, DesIn("SD", Val(r)[1])), blobs)
           ELSE ThreadStep(p, [t EXCEPT !.todo = Val(r)[2],
                                        !.acc = Append(@, Val(DesIn("SD", Val(r)[1])))],
                           blobs)

\* return x, or tuple(x), set(x), frozenset(x)
ThreadDesReturn(p) ==
    LET t == threads[p]
    IN  /\ t.pc = "_list_des" /\ t.todo = <<>>
        /\ ThreadStep(p, ThreadDone(p,
                CASE t.fn = "_list_des"      -> Ret(Obj("list", t.acc))
                  [] t.fn = "_tuple_des"     -> ToTuple(t.acc)
                  [] t.fn = "_set_des"       -> ToSet(t.acc)
                  [] t.fn = "_frozenset_des" -> ToFrozenSet(t.acc)), blobs)

\* The caller of thread p takes the outcome, and the frame of the call is
\* gone.
ThreadReturn(p) ==
    /\ threads[p].pc = "done"
    /\ ThreadStep(p, ThreadIdle, [blobs EXCEPT ![Frame(p)] = <<>>])

ThreadsCall == \E p \in Threads : ThreadCall(p)

ThreadsSerLookup == \E p \in Threads : ThreadSerLookup(p)

ThreadsListSerLoop == \E p \in Threads : ThreadListSerLoop(p)

ThreadsSerReturn == \E p \in Threads : ThreadSerReturn(p)

ThreadsDesPeel == \E p \in Threads : ThreadDesPeel(p)

ThreadsDesLookup == \E p \in Threads : ThreadDesLookup(p)

ThreadsDesPayload == \E p \in Threads : ThreadDesPayload(p)

ThreadsListDesLoop == \E p \in Threads : ThreadListDesLoop(p)

ThreadsDesReturn == \E p \in Threads : ThreadDesReturn(p)

ThreadsReturn == \E p \in Threads : ThreadReturn(p)

Next ==
    \/ Forget
    \/ CallSer
    \/ CallDes
    \/ CallDesTruncated
    \/ CallDesRetagged
    \/ CallDesRaw
    \/ CallDesFramed
    \/ CallDesNested
    \/ CallIntToVLQ
    \/ CallVLQToInt
    \/ CallVLQToIntRaw
    \/ VLQToIntIterate
    \/ CallIntSer
    \/ CallIntDes
    \/ CallVer
    \/ CallListDes
    \/ ListDesIterate
    \/ CallDesElement
    \/ CallVerify
    \/ VerifyAll
    \/ CallSkipVLQ
    \/ CallSkipVLQAfter
    \/ CallDepascalify
    \/ CallPascalify
    \/ CallPeel
    \/ CallPeelRaw
    \/ ThreadsCall
    \/ ThreadsSerLookup
    \/ ThreadsListSerLoop
    \/ ThreadsSerReturn
    \/ ThreadsDesPeel
    \/ ThreadsDesLookup
    \/ ThreadsDesPayload
    \/ ThreadsListDesLoop
    \/ ThreadsDesReturn
    \/ ThreadsReturn

Spec == Init /\ [][Next]_vars

-----------------------------------------------------------------------------
(* Properties *)

RECURSIVE SameObject(_, _)
\* a and b are of the same kind and hold the same contents: in the same order
\* for bytes, str, list and tuple, as sets for set and frozenset, key by key
\* for dict.
SameObject(a, b) ==
    LET ca == Content(a)
        cb == Content(b)
    IN  /\ Kind(a) = Kind(b)
        /\ IF Kind(a) \in {"list", "tuple"}
           THEN /\ Len(ca) = Len(cb)
                /\ \A i \in 1..Len(ca) : SameObject(ca[i], cb[i])
           ELSE IF Kind(a) \in {"set", "frozenset"}
           THEN /\ \A i \in 1..Len(ca) : \E j \in 1..Len(cb) : SameObject(ca[i], cb[j])
                /\ \A j \in 1..Len(cb) : \E i \in 1..Len(ca) : SameObject(ca[i], cb[j])
           ELSE IF Kind(a) = "dict"
           THEN /\ Len(ca) = Len(cb)
                /\ \A i \in 1..Len(ca) : \E j \in 1..Len(cb) :
                      SameObject(ca[i][1], cb[j][1]) /\ SameObject(ca[i][2], cb[j][2])
           ELSE ca = cb

\* The kinds of the registered variants.
Registered == {"bytes", "str", "int", "bool", "list", "tuple", "set", "frozenset", "dict"}

RECURSIVE BuiltFromRegistered(_)
\* x is built from registered variants alone, at every depth.
BuiltFromRegistered(x) ==
    /\ Kind(x) \in Registered
    /\ IF Kind(x) \in {"list", "tuple", "set", "frozenset"}
       THEN \A i \in 1..Len(Content(x)) : BuiltFromRegistered(Content(x)[i])
       ELSE IF Kind(x) = "dict"
       THEN \A i \in 1..Len(Content(x)) :
               BuiltFromRegistered(Content(x)[i][1]) /\ BuiltFromRegistered(Content(x)[i][2])
       ELSE TRUE

\* C1: Des(Ser(v)) equals v for every value v built from the registered
\* variants: what Des returns for the bytes Ser returned is an object of the
\* same kind and contents as the one given to Ser.
C1_RoundTrip ==
    (op = "Des" /\ origin[1] = "Ser" /\ origin[3] = <<>> /\ BuiltFromRegistered(origin[2]))
        => IsRet(ret) /\ SameObject(Val(ret), origin[2])

\* C2: peel(pascalify(P) ++ X) returns exactly (P, X).
C2_PeelPascalify ==
    (op = "peel" /\ origin[1] = "pascalify")
        => ret = Ret(<<origin[2], origin[3]>>)

C2_Witness ==
    /\ op = "peel" /\ origin[1] = "pascalify"
    /\ Len(origin[2]) >= 128 /\ origin[3] # <<>>
    /\ IsRet(ret) /\ Val(ret)[2] = origin[3]

\* C3: VLQToInt(intToVLQ(n) ++ X) = n for every n >= 0 and every X: decoding
\* stops at the first byte whose continuation bit is clear, and the bytes
\* after it are left unread.
C3_VLQRoundTrip ==
    (op = "VLQToInt" /\ origin[1] = "intToVLQ" /\ origin[2] >= 0)
        => /\ ret = Ret(origin[2])
           /\ vq.pc = "return" => vq.n = origin[2] /\ vq.blob = origin[3]
           /\ vq.pc = "loop" => Len(vq.blob) > Len(origin[3])

C3_Witness ==
    /\ op = "VLQToInt" /\ origin[1] = "intToVLQ"
    /\ origin[2] = 246537 /\ origin[3] # <<>>
    /\ vq.pc = "return" /\ ret = Ret(246537)

RECURSIVE Groups(_)
\* The number of 7-bit groups of n: one, and one more for each further 7 bits.
Groups(n) == IF n < 128 THEN 1 ELSE 1 + Groups(n \div 128)

RECURSIVE BigEndian(_)
\* The number whose base-128 digits, most significant first, are the low 7
\* bits of the bytes of b.
BigEndian(b) ==
    IF b = <<>> THEN 0
    ELSE 128 * BigEndian(Take(b, Len(b) - 1)) + (b[Len(b)] % 128)

\* C4: intToVLQ(n), n >= 0, is the shortest big-endian base-128 encoding of
\* n: bit 7 is set on every byte but the last, the 7-bit groups read most
\* significant first give n, there is one byte per group of n and no leading
\* zero group; 0 -> 00, 127 -> 7F, 128 -> 81 00, 246537 -> 8F 86 09.
C4_ShortestVLQ ==
    (op = "intToVLQ" /\ arg >= 0)
        => LET b == Val(ret)
           IN  /\ Len(b) = Groups(arg)
               /\ \A i \in 1..(Len(b) - 1) : b[i] >= 128 /\ b[i] <= 255
               /\ b[Len(b)] >= 0 /\ b[Len(b)] < 128
               /\ BigEndian(b) = arg
               /\ Len(b) > 1 => b[1] # 128
               /\ arg = 0 => b = <<0>>
               /\ arg = 55 => b = <<55>>
               /\ arg = 127 => b = <<127>>
               /\ arg = 128 => b = <<129, 0>>
               /\ arg = 129 => b = <<129, 1>>
               /\ arg = 246537 => b = <<143, 134, 9>>

C4_Witness == op = "intToVLQ" /\ arg = 246537 /\ Len(Val(ret)) = 3

\* The UTF-8 bytes of the tag name of each registered kind, written out.
TagBytes(kind) ==
    CASE kind = "bytes"     -> <<98, 121, 116, 101, 115>>
      [] kind = "str"       -> <<115, 116, 114>>
      [] kind = "int"       -> <<105, 110, 116>>
      [] kind = "bool"      -> <<98, 111, 111, 108>>
      [] kind = "list"      -> <<108, 105, 115, 116>>
      [] kind = "tuple"     -> <<116, 117, 112, 108, 101>>
      [] kind = "set"       -> <<115, 101, 116>>
      [] kind = "frozenset" -> <<102, 114, 111, 122, 101, 110, 115, 101, 116>>
      [] kind = "dict"      -> <<100, 105, 99, 116>>

\* What Ser(x) must be, given the outcome of the serializer of x's kind.
TagThenPayload(kind, payload, r) ==
    IF IsRaise(payload) THEN r = payload
    ELSE /\ r = Ret(pascalify(TagBytes(kind)) \o pascalify(Val(payload)))
         /\ Val(r)[1] = Len(TagBytes(kind))
         /\ SubSeq(Val(r), 2, 1 + Len(TagBytes(kind))) = TagBytes(kind)
         /\ peel(Drop(Val(r), 1 + Len(TagBytes(kind)))) = Ret(<<Val(payload), <<>> >>)

\* C5: Ser(v) = pascalify(utf8(tag_name)) ++ pascalify(serializer(v)) for the
\* registry entry (tag_name, serializer) of v's kind: a tag frame, then
\* exactly one payload frame.
C5_SerLayout ==
    (op = "Ser" /\ Kind(arg) \in Registered)
        => TagThenPayload(Kind(arg), CallSerializer(mod, serers[Kind(arg)][2], arg), ret)

C5_Witness ==
    /\ op = "Ser" /\ Kind(arg) = "dict" /\ Len(Content(arg)) = 2
    /\ IsRet(ret) /\ Take(Val(ret), 5) = <<4, 100, 105, 99, 116>>

\* C6: Des(Ser(v) ++ X) returns what Des(Ser(v)) returns, whatever the bytes X.
C6_DesIgnoresTail ==
    (op = "Des" /\ origin[1] = "Ser")
        => ret = DesIn(mod, Take(arg, Len(arg) - Len(origin[3])))

C6_Witness ==
    /\ op = "Des" /\ origin[1] = "Ser" /\ origin[3] # <<>>
    /\ Kind(origin[2]) = "bytes" /\ Content(origin[2]) # <<>>
    /\ ret = Ret(origin[2])

\* The blob starts with a complete VLQ that declares more bytes than follow it.
DeclaresTooMuch(blob) ==
    IsRet(depascalify(blob)) /\ Val(depascalify(blob))[1] > Len(Val(depascalify(blob))[2])

\* C7: peel of a frame whose declared length exceeds the bytes that follow
\* the length prefix fails, and Des of a serialization cut short (its tag
\* frame or its payload frame truncated) fails instead of returning a value.
C7_TruncatedFails ==
    /\ (op = "peel" /\ DeclaresTooMuch(arg)) => IsRaise(ret)
    /\ (op = "Des" /\ origin[1] = "truncated") => IsRaise(ret)

NoTerminator(blob) == \A i \in 1..Len(blob) : blob[i] >= 128

\* C8: VLQ decoding of an empty blob, or of a blob whose every byte has the
\* continuation bit set, fails (with the IndexError of reading past the end):
\* it returns no integer, and each iteration of the loop shortens what is
\* left to read, so the loop ends.
C8_VLQNoTerminator ==
    /\ [](/\ (op = "VLQToInt" /\ NoTerminator(arg))
               => ret = Raise("IndexError", <<>>) /\ vq.pc \in {"loop", "IndexError"}
          /\ (op = "skipVLQ" /\ NoTerminator(arg)) => ret = Raise("IndexError", <<>>)
          /\ vq.pc = "IndexError" => NoTerminator(arg) /\ vq.blob = <<>>)
    /\ [][vq.pc = "loop" /\ vq'.pc = "loop" /\ arg' = arg
            => Len(vq'.blob) < Len(vq.blob)]_vars

C8_Witness ==
    /\ op = "VLQToInt" /\ arg = <<128, 255>>
    /\ vq.pc = "IndexError" /\ IsRaise(ret)

\* C9: Des of a well-formed tag frame and payload frame whose tag names no
\* registry entry fails with an error that carries the tag name.
C9_UnknownTagCarriesName ==
    (op = "Des" /\ origin[1] = "retagged")
        => IsRaise(ret) /\ Info(ret) = <<"name", origin[3]>>

\* C10: Ser of an object whose kind has no registry entry fails with an error
\* that carries the kind.
C10_UnknownVariantCarriesKind ==
    (op = "Ser" /\ Kind(arg) \notin DOMAIN serers)
        => IsRaise(ret) /\ Info(ret) = <<"type", Kind(arg)>>

\* C11: Des of a tag frame that is not UTF-8 fails with the decoding error of
\* the text (UnicodeDecodeError), an outcome other than the one of an unknown
\* tag or a malformed frame; and Des of a str-tagged unit whose payload is not
\* UTF-8 fails with that same decoding error.
C11_TextDecodeError ==
    /\ (op = "Des" /\ origin[1] = "framed" /\ IsRaise(bytesToStr(origin[2])))
          => IsRaise(ret) /\ Exc(ret) = "UnicodeDecodeError"
    /\ (op = "Des" /\ origin[1] = "framed" /\ origin[2] = TagBytes("str")
           /\ IsRaise(bytesToStr(origin[3])))
          => IsRaise(ret) /\ Exc(ret) = "UnicodeDecodeError"

\* The objects x holds: the elements of a list, tuple, set or frozenset, the
\* keys and the values of a dict.
ElementsOf(x) ==
    IF Kind(x) \in {"list", "tuple", "set", "frozenset"}
    THEN {Content(x)[i] : i \in 1..Len(Content(x))}
    ELSE IF Kind(x) = "dict"
    THEN {Content(x)[i][1] : i \in 1..Len(Content(x))}
         \cup {Content(x)[i][2] : i \in 1..Len(Content(x))}
    ELSE {}

RECURSIVE SerFailsInside(_, _)
\* Ser raises for an object held by x, at some depth.
SerFailsInside(m, x) ==
    \E e \in ElementsOf(x) : IsRaise(SerIn(m, e)) \/ SerFailsInside(m, e)

RECURSIVE Units(_)
\* The frames a container payload is made of, as far as they can be peeled.
Units(blob) ==
    IF blob = <<>> \/ IsRaise(peel(blob)) THEN <<>>
    ELSE <<Val(peel(blob))[1]>> \o Units(Val(peel(blob))[2])

\* Des raises for one of the units of a container payload.
DesFailsInside(m, payload) ==
    \E i \in 1..Len(Units(payload)) : IsRaise(DesIn(m, Units(payload)[i]))

\* C12: when Ser fails for an object held at any depth of a container, Ser of
\* the container fails; when Des fails for a unit of a container payload
\* (itself a container with a failing unit, or not), Des of the container
\* fails: no container is returned without the failing element.
C12_ErrorsPropagate ==
    /\ (op = "Ser" /\ SerFailsInside(mod, arg)) => IsRaise(ret)
    /\ (op = "Des" /\ origin[1] = "nested" /\ DesFailsInside(mod, origin[3]))
          => IsRaise(ret)

C12_Witness ==
    /\ op = "Des" /\ origin[1] = "nested" /\ origin[2] = TagBytes("list")
    /\ Len(Units(origin[3])) = 2
    /\ IsRet(DesIn(mod, Units(origin[3])[1]))
    /\ Units(origin[3])[2] = pascalify(<<108, 105, 115, 116>>)
            \o pascalify(pascalify(pascalify(<<115, 116, 114>>) \o pascalify(<<255>>)))
    /\ ret = Raise("UnicodeDecodeError", <<>>)

\* C13: after any sequence of Ser and Des calls, returning or raising, the
\* two tables of the registry are what they were after initialization.
C13_RegistryUnchanged == serers = InitSerers /\ desers = InitDesers

C13_Witness ==
    /\ op = "Des" /\ origin[1] = "retagged" /\ IsRaise(ret)
    /\ Kind(origin[2]) = "list"
    /\ DOMAIN serers = Registered
    /\ DOMAIN desers = {InitSerers[k][1] : k \in Registered}

\* What the call of thread p returns or raises when it runs alone.
Alone(p) ==
    IF threads[p].f = "Ser" THEN SerIn("SD", threads[p].input)
    ELSE DesIn("SD", threads[p].input)

\* C14: whatever the interleaving of the steps of the threads, the outcome of
\* each call is the one of the same call run alone, and the steps of a thread
\* leave the registry and the state of every other thread as they were.
C14_ThreadsIndependent ==
    /\ [](\A p \in Threads : threads[p].pc = "done" => threads[p].out = Alone(p))
    /\ [][\A p, q \in Threads :
            (threads'[p] # threads[p] /\ q # p)
                => /\ threads'[q] = threads[q]
                   /\ blobs'[Frame(q)] = blobs[Frame(q)]
                   /\ serers' = serers /\ desers' = desers]_vars

C14_Witness ==
    /\ threads[1].pc = "done" /\ threads[1].f = "Ser" /\ Kind(threads[1].input) = "list"
    /\ IsRet(threads[1].out)
    /\ threads[2].pc = "_list_ser" /\ Len(threads[2].todo) = 1
    /\ blobs[1] # <<>> /\ blobs[2] # <<>> /\ blobs[1] # blobs[2]

\* The objects of the kind of x that hold the members of x, in every
\* iteration order.
SameMembers(x) ==
    LET n == Len(Content(x))
    IN  {Obj(Kind(x), [i \in 1..n |-> Content(x)[f[i]]]) :
            f \in {g \in [1..n -> 1..n] : \A i, j \in 1..n : i # j => g[i] # g[j]}}

\* C15: Ser of a set or frozenset returns the same bytes for every object
\* with the same members, whatever the order in which it is iterated.
C15_SetSerDeterministic ==
    (op = "Ser" /\ Kind(arg) \in {"set", "frozenset"})
        => \A y \in SameMembers(arg) : SerIn(mod, y) = ret

\* What Ser returns for each element of a container, in iteration order.
ElementUnits(m, elems) == [i \in 1..Len(elems) |-> Val(SerIn(m, elems[i]))]

RECURSIVE Framed(_)
\* The frames of the blobs of a sequence, one after the other.
Framed(bs) == IF bs = <<>> THEN <<>> ELSE pascalify(Head(bs)) \o Framed(Tail(bs))

\* The payload of an encoded unit: what its second frame holds.
PayloadOf(unit) == Val(peel(Val(peel(unit))[2]))[1]

\* An object of kind k can hold the elements: any for a list or a tuple,
\* hashable and different ones for a set or a frozenset.
CanHold(k, elems) ==
    k \in {"list", "tuple"} \/ ((\A i \in 1..Len(elems) : Hashable(elems[i]))
                                   /\ PairwiseDistinct(elems))

\* C16: the payload of a list, tuple, set or frozenset is the frames of
\* Ser(e) for each element e, in iteration order and one per element; it is
\* empty for an empty container; and the same elements under another of the
\* four kinds give the same payload behind another tag frame.
C16_ContainerPayload ==
    (op = "Ser" /\ Kind(arg) \in {"list", "tuple", "set", "frozenset"} /\ IsRet(ret))
        => /\ PayloadOf(Val(ret)) = Framed(ElementUnits(mod, Content(arg)))
           /\ Units(PayloadOf(Val(ret))) = ElementUnits(mod, Content(arg))
           /\ Content(arg) = <<>> => PayloadOf(Val(ret)) = <<>>
           /\ \A k \in {"list", "tuple", "set", "frozenset"} :
                 CanHold(k, Content(arg))
                    => /\ PayloadOf(Val(SerIn(mod, Obj(k, Content(arg)))))
                            = PayloadOf(Val(ret))
                       /\ Val(peel(Val(SerIn(mod, Obj(k, Content(arg))))))[1] = TagBytes(k)

C16_Witness ==
    /\ op = "Ser" /\ Kind(arg) = "tuple" /\ IsRet(ret)
    /\ Len(Content(arg)) = 2 /\ Kind(Content(arg)[1]) = "list"
    /\ Kind(Content(arg)[2]) = "frozenset"
    /\ Len(Units(PayloadOf(Val(ret)))) = 2

\* C17, as stated: the payload of a dict is what _list_ser returns for the
\* list of the lists [key, value] of its entries, each entry being a unit
\* tagged as a list.
C17_DictEntriesAsLists ==
    (op = "Ser" /\ Kind(arg) = "dict" /\ IsRet(ret))
        => PayloadOf(Val(ret))
             = Val(_list_ser(mod, Obj("list", [i \in 1..Len(Content(arg)) |->
                                                Obj("list", Content(arg)[i])])))

\* C17, amended: the payload of a dict holds one frame per entry, in
\* iteration order; each is a unit tagged "bytes" whose payload is what
\* _list_ser returns for the pair: the frame of Ser(key), then the frame of
\* Ser(value).
C17_DictEntriesAsBytes ==
    (op = "Ser" /\ Kind(arg) = "dict" /\ IsRet(ret))
        => LET payload == PayloadOf(Val(ret))
               entries == Content(arg)
           IN  /\ Len(Units(payload)) = Len(entries)
               /\ payload = Framed(Units(payload))
               /\ \A i \in 1..Len(entries) :
                     LET u == Units(payload)[i]
                     IN  /\ Val(peel(u))[1] = TagBytes("bytes")
                         /\ PayloadOf(u) = Framed(<<Val(SerIn(mod, entries[i][1])),
                                                    Val(SerIn(mod, entries[i][2]))>>)
                         /\ u = Val(SerIn(mod, Obj("bytes",
                                    Val(_list_ser(mod, Obj("list", entries[i]))))))

C17_Witness ==
    /\ op = "Ser" /\ Kind(arg) = "dict" /\ IsRet(ret)
    /\ Len(Content(arg)) = 2
    /\ Kind(Content(arg)[1][2]) = "list" /\ Kind(Content(arg)[2][2]) = "int"
    /\ Len(Units(PayloadOf(Val(ret)))) = 2

\* C18: _bool_ser writes the byte FF for True and 00 for False, _bool_des
\* returns True for the payload FF and False for the payload 00, and so
\* Des(Ser(True)) is True and Des(Ser(False)) is False.
C18_BoolCodec ==
    /\ (op = "Ser" /\ Kind(arg) = "bool")
          => IsRet(ret) /\ PayloadOf(Val(ret)) = IF Content(arg) THEN <<255>> ELSE <<0>>
    /\ (op = "Des" /\ origin[1] = "framed" /\ origin[2] = TagBytes("bool")
           /\ origin[3] \in {<<255>>, <<0>>})
          => ret = Ret(Obj("bool", origin[3] = <<255>>))
    /\ (op = "Des" /\ origin[1] = "Ser" /\ Kind(origin[2]) = "bool")
          => ret = Ret(origin[2])

\* C19: in src/ToBeGreen/SD.py the payload of an int x is the sign byte (FF
\* when 0 <= x, 00 when x < 0) followed by the variable-length encoding of
\* abs(x), and _int_des(_int_ser(x)) is x, for x negative, zero and positive.
C19_SignedInt ==
    /\ (op = "Ser" /\ mod = "ToBeGreen" /\ Kind(arg) = "int")
          => /\ IsRet(ret)
             /\ PayloadOf(Val(ret))
                  = <<IF Content(arg) >= 0 THEN 255 ELSE 0>> \o intToVLQ(abs(Content(arg)))
             /\ ToBeGreen_int_des(PayloadOf(Val(ret))) = Ret(arg)
    /\ (op = "Des" /\ mod = "ToBeGreen" /\ origin[1] = "Ser" /\ Kind(origin[2]) = "int")
          => ret = Ret(origin[2])
    /\ op = "_int_ser"
          => ret = Ret(<<IF Content(arg) >= 0 THEN 255 ELSE 0>>
                        \o intToVLQ(abs(Content(arg))))
    /\ op = "_int_des" => ret = Ret(origin[2])

C19_Witness ==
    /\ op = "_int_des" /\ origin[2] = Obj("int", -246537)
    /\ arg = <<0, 143, 134, 9>> /\ ret = Ret(Obj("int", -246537))

\* C20: SUM(alternatives...).verify(obj) returns True exactly when Ver(obj, a)
\* is True for at least one alternative a, and a SUM without alternatives
\* returns False for every object.
C20_SumVerify ==
    (op = "Ver" /\ arg[2][1] = "SUM")
        => /\ ret = Ret(\E i \in 1..Len(arg[2][2]) : Ver(arg[1], arg[2][2][i]) = Ret(TRUE))
           /\ arg[2][2] = <<>> => ret = Ret(FALSE)

\* Ver(obj, spec) returns True.
Accepts(obj, spec) == Ver(obj, spec) = Ret(TRUE)

\* C21: PRODUCT(specs...).verify(objs) returns True exactly when len(objs) is
\* the number of specs and Ver(objs[i], specs[i]) is True for every i; it
\* raises only when len(objs) or one of the Ver calls raises; PRODUCT() accepts
\* the empty sequence; and when the lengths differ it returns False and Ver is
\* called for no pair.
C21_ProductVerify ==
    /\ (op \in {"Ver", "verify"} /\ arg[2][1] = "PRODUCT")
          => LET objs  == arg[1]
                 specs == arg[2][2]
                 n     == PyLen(objs)
             IN  /\ (ret = Ret(TRUE))
                       <=> /\ IsRet(n) /\ Val(n) = Len(specs)
                           /\ \A i \in 1..Len(specs) : Accepts(Val(Iterate(objs))[i], specs[i])
                 /\ IsRaise(ret)
                       => \/ IsRaise(n)
                          \/ /\ Val(n) = Len(specs)
                             /\ \E i \in 1..Len(specs) :
                                   IsRaise(Ver(Val(Iterate(objs))[i], specs[i]))
                 /\ IsRet(ret) => Val(ret) \in BOOLEAN
                 /\ (specs = <<>> /\ IsRet(n) /\ Val(n) = 0) => ret = Ret(TRUE)
                 /\ (IsRet(n) /\ Val(n) # Len(specs)) => ret = Ret(FALSE)
    /\ (op = "verify" /\ arg[2][1] = "PRODUCT" /\ it.pc = "done")
          => /\ it.out = ret
             /\ (IsRet(PyLen(arg[1])) /\ Val(PyLen(arg[1])) # Len(arg[2][2]))
                   => it.out = Ret(FALSE) /\ it.calls = <<>>

C21_Witness ==
    /\ op = "verify" /\ arg[2][1] = "PRODUCT" /\ it.pc = "done"
    /\ Len(arg[2][2]) = 2 /\ Len(it.calls) = 2 /\ ret = Ret(TRUE)

\* C22: ITERABLE(tipo, subtipo).verify(objs) returns True exactly when the
\* type of objs is tipo and every element verifies against subtipo, and False
\* for a container of another type; DICT(KVtipo).verify(m) returns True
\* exactly when m is a dict and KVtipo.verify([k, v]) is True for every entry,
\* and False for what is not a dict; the empty container and the empty dict
\* are accepted.
C22_IterableDictVerify ==
    /\ (op \in {"Ver", "verify"} /\ arg[2][1] = "ITERABLE")
          => LET objs == arg[1]
                 tipo == arg[2][2]
             IN  /\ (ret = Ret(TRUE))
                       <=> /\ Kind(objs) = tipo
                           /\ \A i \in 1..Len(Content(objs)) :
                                 Accepts(Content(objs)[i], arg[2][3])
                 /\ Kind(objs) # tipo => ret = Ret(FALSE)
                 /\ (Kind(objs) = tipo /\ Content(objs) = <<>>) => ret = Ret(TRUE)
                 /\ IsRet(ret) => Val(ret) \in BOOLEAN
    /\ (op = "Ver" /\ arg[2][1] = "DICT")
          => LET m      == arg[1]
                 KVtipo == arg[2][2]
             IN  /\ (ret = Ret(TRUE))
                       <=> /\ Kind(m) = "dict"
                           /\ \A i \in 1..Len(Content(m)) :
                                 /\ VERIFYABLE(KVtipo)
                                 /\ Accepts(Obj("list", Content(m)[i]), KVtipo)
                 /\ Kind(m) # "dict" => ret = Ret(FALSE)
                 /\ m = Obj("dict", <<>>) => ret = Ret(TRUE)
                 /\ IsRet(ret) => Val(ret) \in BOOLEAN

C22_Witness ==
    /\ op = "Ver" /\ arg[2][1] = "DICT" /\ arg[2][2][1] = "PRODUCT"
    /\ Kind(arg[1]) = "dict" /\ Len(Content(arg[1])) = 2 /\ ret = Ret(FALSE)

\* C23: Des ends on every blob, with a value or an exception.  The payload
\* _list_des is given is shorter than the span of the Des call that made the
\* call; every Des call the loop of _list_des makes is given a span shorter
\* than that payload; every run of the loop body either ends the loop or
\* leaves fewer bytes in blob, so that the calls made and the bytes left
\* never outnumber the bytes of the payload.
C23_DesTerminates ==
    /\ [](/\ op = "Des" => IsRet(ret) \/ IsRaise(ret)
          /\ op = "_list_des"
                => /\ Len(arg) < Len(origin[2])
                   /\ \A i \in 1..Len(it.calls) : Len(it.calls[i]) < Len(arg)
                   /\ Len(it.calls) + Len(it.todo) <= Len(arg)
          /\ (op = "Des" /\ origin[1] = "_list_des")
                => Len(arg) < Len(origin[2]) /\ Len(origin[2]) < Len(origin[3]))
    /\ [][/\ (it.pc = "while" /\ it' # it /\ it'.pc # "idle")
                => it'.pc = "done" \/ Len(it'.todo) < Len(it.todo)
          /\ \A p \in Threads :
                (threads[p].pc = "_list_des" /\ threads'[p] # threads[p]
                    /\ threads'[p].pc = "_list_des")
                    => Len(threads'[p].todo) < Len(threads[p].todo)]_vars

C23_Witness ==
    /\ op = "Des" /\ origin[1] = "_list_des"
    /\ IsRet(ret) /\ Kind(Val(ret)) = "list" /\ Content(Val(ret)) # <<>>

\* C24: _list_des peels the frames of its payload from left to right until
\* no byte is left, calls Des once for each frame, with the bytes of that
\* frame, in the order of the wire, and returns the values in that order; for
\* the empty payload it returns the empty list and calls Des not once.
C24_ListDesOrder ==
    op = "_list_des"
        => /\ it.calls = SubSeq(Units(arg), 1, Len(it.calls))
           /\ Len(it.x) <= Len(it.calls)
           /\ \A i \in 1..Len(it.x) : Ret(it.x[i]) = DesIn(mod, it.calls[i])
           /\ it.pc = "while"
                 => Len(it.x) = Len(it.calls) /\ Units(arg) = it.calls \o Units(it.todo)
           /\ it.pc = "done" => it.out = ret
           /\ (it.pc = "done" /\ IsRet(it.out))
                 => /\ it.todo = <<>>
                    /\ it.calls = Units(arg)
                    /\ it.out = Ret(Obj("list", it.x))
           /\ IsRet(ret)
                 => Content(Val(ret))
                      = [i \in 1..Len(Units(arg)) |-> Val(DesIn(mod, Units(arg)[i]))]
           /\ arg = <<>> => ret = Ret(Obj("list", <<>>)) /\ it.calls = <<>>

C24_Witness ==
    /\ op = "_list_des" /\ it.pc = "done" /\ IsRet(ret)
    /\ Len(it.calls) = 2 /\ it.calls[1] # it.calls[2] /\ Len(it.x) = 2

\* The position of the first byte of b whose continuation bit is clear.
FirstClear(b) == CHOOSE i \in 1..Len(b) : b[i] < 128 /\ \A j \in 1..(i - 1) : b[j] >= 128

\* C25: for a blob b with a byte whose continuation bit is clear, VLQs with
\* leading 0x80 bytes included, skipVLQ(b) is what follows the first such
\* byte, which is what VLQToInt(b) has left unread when it returns, and
\* depascalify(b) is the number decoded from the bytes up to that byte
\* together with everything after them.
C25_SkipVLQAgrees ==
    /\ (op = "skipVLQ" /\ ~NoTerminator(arg))
          => /\ ret = Ret(Drop(arg, FirstClear(arg)))
             /\ origin[1] = "VLQToInt" => origin[2] = "return" /\ ret = Ret(origin[3])
    /\ (op = "VLQToInt" /\ ~NoTerminator(arg))
          => /\ ret = Ret(BigEndian(Take(arg, FirstClear(arg))))
             /\ vq.pc = "return" => vq.blob = Drop(arg, FirstClear(arg))
             /\ vq.pc # "IndexError"
    /\ (op = "depascalify" /\ ~NoTerminator(arg))
          => ret = Ret(<<BigEndian(Take(arg, FirstClear(arg))), Drop(arg, FirstClear(arg))>>)

C25_Witness ==
    /\ op = "skipVLQ" /\ origin[1] = "VLQToInt"
    /\ Len(arg) = 5 /\ arg[1] = 128 /\ arg[2] = 128 /\ ret = Ret(<<255>>)

\* The (object, spec) pairs of PRODUCT.verify, or the (element, subtipo) pairs
\* of ITERABLE.verify, in index order; none when the lengths or the types do
\* not match.
PairsOf(objs, self) ==
    IF self[1] = "PRODUCT"
    THEN IF IsRet(PyLen(objs)) /\ Val(PyLen(objs)) = Len(self[2])
         THEN [i \in 1..Len(self[2]) |-> <<Val(Iterate(objs))[i], self[2][i]>>]
         ELSE <<>>
    ELSE IF Kind(objs) = self[2] /\ IsRet(Iterate(objs))
         THEN [i \in 1..Len(Content(objs)) |-> <<Content(objs)[i], self[3]>>]
         ELSE <<>>

\* C26: PRODUCT.verify and ITERABLE.verify call Ver for their pairs in index
\* order, each pair once, and for no pair after one for which Ver returned
\* False (or raised); no pair is checked when the lengths, or the types, do
\* not match; True is returned only after every pair was checked.
C26_ShortCircuit ==
    op = "verify"
        => LET pairs == PairsOf(arg[1], arg[2])
               n     == Len(it.calls)
           IN  /\ n <= Len(pairs) /\ it.calls = SubSeq(pairs, 1, n)
               /\ \A i \in 1..(n - 1) : Accepts(pairs[i][1], pairs[i][2])
               /\ (it.pc = "all" /\ n > 0) => Accepts(pairs[n][1], pairs[n][2])
               /\ (it.pc = "done" /\ n < Len(pairs)) => ~Accepts(pairs[n][1], pairs[n][2])
               /\ (it.pc = "done" /\ it.out = Ret(TRUE)) => it.calls = pairs
               /\ (it.pc = "done" /\ arg[2][1] = "ITERABLE" /\ Kind(arg[1]) # arg[2][2])
                     => it.calls = <<>> /\ it.out = Ret(FALSE)
               /\ it.pc = "done" => it.out = ret

C26_Witness ==
    /\ op = "verify" /\ it.pc = "done" /\ ret = Ret(FALSE)
    /\ Len(PairsOf(arg[1], arg[2])) = 2 /\ Len(it.calls) = 1

\* C27: in src/SD.py and src/SerDes.py (which src/Thwomp.py renames) the
\* payload of an int x is the variable-length encoding of abs(x) and nothing
\* else: its 7-bit groups give abs(x), x and -x serialize to the same bytes,
\* and Des(Ser(x)) is abs(x).
C27_UnsignedInt ==
    /\ (op = "Ser" /\ mod \in {"SD", "SerDes"} /\ Kind(arg) = "int")
          => /\ IsRet(ret)
             /\ PayloadOf(Val(ret)) = intToVLQ(abs(Content(arg)))
             /\ Len(PayloadOf(Val(ret))) = Groups(abs(Content(arg)))
             /\ BigEndian(PayloadOf(Val(ret))) = abs(Content(arg))
             /\ SerIn(mod, Obj("int", -Content(arg))) = ret
    /\ (op = "Des" /\ mod \in {"SD", "SerDes"} /\ origin[1] = "Ser"
           /\ Kind(origin[2]) = "int")
          => ret = Ret(Obj("int", abs(Content(origin[2]))))
    /\ op = "intToVLQ" => BigEndian(Val(ret)) = abs(arg) /\ ret = Ret(intToVLQ(-arg))

C27_Witness ==
    /\ op = "Des" /\ mod = "SerDes" /\ origin[1] = "Ser"
    /\ origin[2] = Obj("int", -129) /\ ret = Ret(Obj("int", 129))

RECURSIVE ExactUnit(_, _)

RECURSIVE ExactFrames(_, _)
\* The payload is frames from its first byte to its last, each declaring the
\* number of bytes it holds and holding an encoded unit that is exact in turn.
ExactFrames(payload, entries) ==
    \/ payload = <<>>
    \/ LET d == depascalify(payload)
       IN  /\ IsRet(d)
           /\ Val(d)[1] <= Len(Val(d)[2])
           /\ ExactUnit(Take(Val(d)[2], Val(d)[1]), entries)
           /\ ExactFrames(Drop(Val(d)[2], Val(d)[1]), entries)

\* The unit is a tag frame and a payload frame and nothing else, each frame
\* declaring the number of bytes it holds; the payload of a container is
\* exact frames, and so is the payload of the bytes unit of a dict entry.
ExactUnit(unit, entry) ==
    LET d == depascalify(unit)
    IN  /\ IsRet(d)
        /\ Val(d)[1] <= Len(Val(d)[2])
        /\ LET tag == Take(Val(d)[2], Val(d)[1])
               e   == depascalify(Drop(Val(d)[2], Val(d)[1]))
           IN  /\ IsRet(e)
               /\ Val(e)[1] = Len(Val(e)[2])
               /\ tag \in {TagBytes(k) : k \in {"list", "tuple", "set", "frozenset"}}
                     => ExactFrames(Val(e)[2], FALSE)
               /\ tag = TagBytes("dict") => ExactFrames(Val(e)[2], TRUE)
               /\ entry => tag = TagBytes("bytes") /\ ExactFrames(Val(e)[2], FALSE)

\* C28: what Ser returns is framed exactly at every level: peeling the tag
\* frame and then the payload frame leaves no byte, each frame declares the
\* number of bytes it holds, never more than there are, and peeling the
\* payload of a container again and again ends with no byte left, each frame
\* peeled being an encoded unit framed exactly in the same way.
C28_ExactFraming ==
    (op = "Ser" /\ IsRet(ret))
        => /\ ExactUnit(Val(ret), FALSE)
           /\ IsRet(peel(Val(ret)))
           /\ peel(Val(peel(Val(ret)))[2]) = Ret(<<PayloadOf(Val(ret)), <<>> >>)
           /\ Kind(arg) \in {"list", "tuple", "set", "frozenset", "dict"}
                 => /\ Framed(Units(PayloadOf(Val(ret)))) = PayloadOf(Val(ret))
                    /\ Len(Units(PayloadOf(Val(ret)))) = Len(Content(arg))

C28_Witness ==
    /\ op = "Ser" /\ IsRet(ret) /\ Kind(arg) = "list" /\ Len(Content(arg)) = 2
    /\ Len(Val(ret)) > 128 /\ Len(Units(PayloadOf(Val(ret)))[1]) > 128

=============================================================================
